---- MODULE Spec2Model ----
(***************************************************************************)
(* Model of the real-time trade processor: the minute scheduler with its   *)
(* two barrier-coordinated workers (scheduler.c, vwap_calculator.c,        *)
(* correlation.c), the ingress ring (queue.c) with the trade processor     *)
(* and the termination handler (main.c), and the sliding window            *)
(* (sliding_window.c).                                                     *)
(*                                                                         *)
(* Three specifications share one initial state:                           *)
(*   SpecSched  - scheduler thread, VWAP worker, correlation worker        *)
(*   SpecQueue  - producers, trade processor (consumer), ring              *)
(*   SpecWindow - add_trade on one sliding window                          *)
(* Each leaves the variables of the other subsystems unchanged.            *)
(***************************************************************************)
EXTENDS Integers, Sequences, FiniteSets, TLC

(***************************************************************************)
(* Program constants and model bounds                                      *)
(***************************************************************************)

\* pthread_barrier_init(..., 3): coordinator + 2 workers
BARRIER_COUNT == 3

\* NUM_SYMBOLS is 8 in the program; the per-symbol loops are scaled down
NUM_SYMBOLS == 2

\* MS_PER_MINUTE is 60000 in the program; the wall clock is scaled down
MS_PER_MINUTE == 2

\* largest wall-clock reading of the model
MaxNowMs == 5

\* number of ticks the scheduler may release
MaxTicks == 2

\* RAW_TRADE_QUEUE_SIZE is 1024 in the program; scaled down (S3 uses Q = 4)
RAW_TRADE_QUEUE_SIZE == 4

\* number of messages each producer pushes
MaxPush == 3

\* WINDOW_CAPACITY is 50000 in the program; scaled down
WINDOW_CAPACITY == 3

\* WINDOW_MS is 15*60*1000 in the program; scaled down
WINDOW_MS == 2

\* largest trade timestamp fed to add_trade
MaxTs == 3

\* <<price, size>> pairs fed to add_trade (positive: the decoder rejects the rest)
TradeInputs == {<<100, 1>>, <<200, 1>>, <<300, 2>>}

\* NS_PER_MS is 1000000 in the program; scaled down
NS_PER_MS == 2

\* EMA_MAX_NS is 100 ms in the program; scaled down to this many ms
EMA_MAX_MS == 1

\* scheduler.c:30
EMA_MAX_NS == EMA_MAX_MS * NS_PER_MS

\* scheduler.c:31  60000LL * NS_PER_MS
PERIOD_NS == MS_PER_MINUTE * NS_PER_MS

\* MOVING_AVG_POINTS is 8 in the program; scaled down
MOVING_AVG_POINTS == 3

\* MAX_LAG_MINUTES is 60 in the program; scaled down
MAX_LAG_MINUTES == 3

\* common.h:61
VWAP_HISTORY_SIZE_MINUTES == MAX_LAG_MINUTES + MOVING_AVG_POINTS

Workers == {"vwap", "corr"}
Threads == {"sched"} \cup Workers
Barriers == {"compute_start", "compute_done"}
Producers == {"p1", "p2"}

NoMsg == <<"none", 0>>
NoThread == "none"

VARIABLES
  \* ---- shared flag (config.h:24) and termination handler (main.c:146) ----
  shutdown_requested,  \* the global flag
  handler_pc,          \* on_termination_signal: "idle", "flagged", "done"
  \* ---- scheduler and workers ----
  pc,                  \* position of each of the three threads
  bar_waiting,         \* threads blocked in pthread_barrier_wait, per barrier
  inbar,               \* per thread: "no", "waiting", "released"
  current_minute_ms,   \* main.c:54
  now_ms,              \* wall clock read by now_ms()
  sym,                 \* per worker: loop index i of the per-symbol loop
  ncross,              \* history: per barrier and thread, number of crossings
  work_tick,           \* history: per worker, the tick of its last work loop
  tick_stamp,          \* history: the stamp the scheduler wrote for each tick
  rows,                \* history: <<worker, tick, stamp>> of every point/row
  \* ---- ingress ring ----
  q_buffer, head_idx, tail_idx,
  q_lock,              \* holder of queue->lock, or NoThread
  cond_waiters,        \* threads asleep on cond_not_empty
  prod_pc, prod_seq,   \* producers: position and number of finished pushes
  cons_pc,             \* trade processor position
  msg_out, pop_ret,    \* out parameter and return value of raw_queue_pop
  q_count,             \* history: stores minus head advances
  pushed, dropped, popped, \* history: messages in store / drop / pop order
  \* ---- sliding window ----
  win,                 \* the sliding_window structure
  last_add,            \* history: what the last add_trade removed
  vwap_out,            \* *out_vwap of the snapshot taken since the last add_trade
  \* ---- add_trade and snapshot_vwap step by step, under w->lock ----
  w_lock,              \* holder of w->lock, or NoThread
  add_pc,              \* trade processor: position inside sliding_window_add_trade
  add_arg,             \* arguments of the add_trade call in progress
  snap_pc,             \* VWAP worker: position around sliding_window_snapshot_vwap
  committed,           \* history: the window after each completed add_trade
  n_at_release,        \* history: add_trade calls returned when compute_start released
  \* ---- one symbol's VWAP history and the calls made on it ----
  hist,                \* the vwap_history structure
  appended,            \* history: every point appended, in append order
  call,                \* the last call on hist: its arguments and results
  \* ---- the scheduler's clocks and schedule ----
  t_pc,                \* position of the scheduler in its timing loop
  mono_ns,             \* CLOCK_MONOTONIC
  wall_offset_ns,      \* CLOCK_REALTIME minus CLOCK_MONOTONIC
  scheduled_time_ns,   \* scheduler.c:35
  target_wakeup_ns,    \* scheduler.c:47
  work_start_ns,       \* scheduler.c:93
  ema_duration_ns,     \* scheduler.c:28, an exact fraction
  tick_scheduled,      \* history: scheduled_time_ns of every tick released
  \* ---- the two workers on the symbols' histories within a tick ----
  hists,               \* symbols[i].vwap_hist for every symbol
  vw_i,                \* VWAP worker: loop index i, NUM_SYMBOLS when done
  cw,                  \* correlation worker: position and locals
  c_ticks,             \* history: ticks started
  row_out,             \* history: per source, the row emitted in this tick
  searched,            \* history: per target, what the last source's search saw
  \* ---- the correlation log ----
  corr_log,            \* history: every row appended to the correlation CSV
  \* ---- the trade processor after a pop ----
  proc,                \* position, the message in msg and its sequence number
  windows,             \* symbols[i].trade_window for every symbol
  proc_log,            \* the trade logs, the latency log and the call history
  \* ---- the websocket thread (websocket.c:15-17, 143-214) ----
  ws,                  \* position, ws_client, reconnect_attempts, reconnect_backoff_s
  \* ---- one history shared by an appender and a lagged search, by statement ----
  srch,                \* h->lock, the two positions and the locals of the search
  \* ---- the mutexes of the program and the threads that take them ----
  mtx                  \* owner of each mutex, position of each thread, the counts

schedVars == <<pc, bar_waiting, inbar, current_minute_ms, now_ms, sym,
               ncross, work_tick, tick_stamp, rows>>
queueVars == <<q_buffer, head_idx, tail_idx, q_lock, cond_waiters, prod_pc,
               prod_seq, cons_pc, msg_out, pop_ret, q_count, pushed, dropped,
               popped>>
winVars   == <<win, last_add, vwap_out>>
sigVars   == <<shutdown_requested, handler_pc>>
snapVars  == <<w_lock, add_pc, add_arg, snap_pc, committed, n_at_release>>
histVars  == <<hist, appended, call>>
timerVars == <<t_pc, mono_ns, wall_offset_ns, scheduled_time_ns, target_wakeup_ns,
               work_start_ns, ema_duration_ns, tick_scheduled>>
corrVars  == <<hists, vw_i, cw, c_ticks, row_out, searched>>
logVars   == <<corr_log>>
procVars  == <<proc, windows, proc_log>>
wsVars    == <<ws>>
lockVars  == <<srch, mtx>>
moreVars  == <<snapVars, histVars, timerVars, corrVars, logVars, procVars, wsVars, lockVars>>
vars      == <<sigVars, schedVars, queueVars, winVars, moreVars>>


(***************************************************************************)
(* Initial state: main() has initialised the ring, the windows and the     *)
(* barriers and created every thread; no thread has run yet.               *)
(***************************************************************************)

EmptyWindow ==
  [buffer |-> [i \in 0..(WINDOW_CAPACITY - 1) |-> [trade_ts_ms |-> 0, price |-> 0, size |-> 0]],
   head_idx |-> 0, tail_idx |-> 0, size |-> 0,
   sum_price_volume |-> 0, sum_volume |-> 0]

InitSig ==
  /\ shutdown_requested = FALSE
  /\ handler_pc = "idle"

InitSched ==
  /\ pc = [t \in Threads |-> IF t = "sched" THEN "s_top" ELSE "w_top"]
  /\ bar_waiting = [b \in Barriers |-> {}]
  /\ inbar = [t \in Threads |-> "no"]
  /\ current_minute_ms = 0
  /\ now_ms = 0
  /\ sym = [w \in Workers |-> 0]
  /\ ncross = [b \in Barriers |-> [t \in Threads |-> 0]]
  /\ work_tick = [w \in Workers |-> 0]
  /\ tick_stamp = <<>>
  /\ rows = {}

InitQueue ==
  /\ q_buffer = [i \in 0..(RAW_TRADE_QUEUE_SIZE - 1) |-> NoMsg]
  /\ head_idx = 0
  /\ tail_idx = 0
  /\ q_lock = NoThread
  /\ cond_waiters = {}
  /\ prod_pc = [p \in Producers |-> "idle"]
  /\ prod_seq = [p \in Producers |-> 0]
  /\ cons_pc = "tp_top"
  /\ msg_out = NoMsg
  /\ pop_ret = -1
  /\ q_count = 0
  /\ pushed = <<>>
  /\ dropped = <<>>
  /\ popped = <<>>

\* the double NAN
NaN == [nan |-> TRUE, num |-> 0, den |-> 1]

\* no snapshot has been taken
NoSnapshot == [called |-> FALSE, value |-> NaN]

InitWindow ==
  /\ win = EmptyWindow
  /\ last_add = [pruned |-> 0, evicted |-> FALSE]
  /\ vwap_out = NoSnapshot

InitSnap ==
  /\ w_lock = NoThread
  /\ add_pc = "idle"
  /\ add_arg = [ts_ms |-> 0, price |-> 0, size |-> 0]
  /\ snap_pc = "parked"
  /\ committed = <<EmptyWindow>>
  /\ n_at_release = 0

\* a vwap_point
Point(minute_ts_ms, vwap) == [minute_ts_ms |-> minute_ts_ms, vwap |-> vwap]

\* a slot of a calloc'ed buffer
ZeroPoint == Point(0, [nan |-> FALSE, num |-> 0, den |-> 1])

EmptyHistory ==
  [buffer |-> [i \in 0..(VWAP_HISTORY_SIZE_MINUTES - 1) |-> ZeroPoint],
   head_idx |-> 0, tail_idx |-> 0, size |-> 0]

\* no call has been made on the history
NoCall ==
  [op |-> "none", n |-> 0, src |-> <<>>, min_offset_min |-> 0,
   ret |-> 0, out |-> <<>>, corr |-> NaN, ts |-> 0]

InitHist ==
  /\ hist = EmptyHistory
  /\ appended = <<>>
  /\ call = NoCall

InitTimer ==
  /\ t_pc = "t_align"
  /\ mono_ns = 0
  /\ wall_offset_ns = 0
  /\ scheduled_time_ns = 0
  /\ target_wakeup_ns = 0
  /\ work_start_ns = 0
  /\ ema_duration_ns = [num |-> 0, den |-> 1]
  /\ tick_scheduled = <<>>

\* the correlation NAN
NaNCorr == [nan |-> TRUE, num |-> 0, den2 |-> 1]

\* correlation.c:73 and 149  a best correlation of 0.0
ZeroCorr == [nan |-> FALSE, num |-> 0, den2 |-> 1]

\* no row was emitted for a source
NoRow ==
  [emitted |-> 0, minute_ms |-> 0, target |-> 0 - 1, corr |-> NaNCorr, ts |-> 0]

\* a target has not been searched for the current source
NotSearched == [done |-> FALSE, corr |-> NaNCorr, ts |-> 0, seen |-> {}]

\* the correlation worker parked on compute_start
CorrWorkerParked ==
  [pc |-> "c_parked", i |-> 0, j |-> 0, got |-> FALSE, src_points_buf |-> <<>>,
   found_any |-> FALSE, best_corr |-> ZeroCorr, best_ts |-> 0, best_j |-> 0 - 1]

InitCorr ==
  /\ hists = [i \in 0..(NUM_SYMBOLS - 1) |-> EmptyHistory]
  /\ vw_i = NUM_SYMBOLS
  /\ cw = CorrWorkerParked
  /\ c_ticks = 0
  /\ row_out = [i \in 0..(NUM_SYMBOLS - 1) |-> NoRow]
  /\ searched = [j \in 0..(NUM_SYMBOLS - 1) |-> NotSearched]
  /\ corr_log = {}

\* no message is held in msg
NoTrade ==
  [raw |-> <<>>, symbol_index |-> 0 - 1, exchange_ts_ms |-> 0, price |-> 0, size |-> 0]

\* main.c:92-93 and 47  the windows are empty and nothing has been logged
InitProc ==
  /\ proc = [pc |-> "p_top", n |-> 0, msg |-> NoTrade]
  /\ windows = [i \in 0..(NUM_SYMBOLS - 1) |-> EmptyWindow]
  /\ proc_log = [trade_log |-> [i \in 0..(NUM_SYMBOLS - 1) |-> <<>>],
                 latency_log |-> <<>>, dequeued |-> <<>>, adds |-> <<>>]

\* the locals of find_best_lagged_correlation before the call
NoSearch ==
  [src |-> <<>>, min_offset_min |-> 0, hist_len |-> 0, max_search_offset |-> 0,
   offset |-> 0, start |-> 0, slots |-> <<>>, seen |-> EmptyHistory,
   best |-> [found_match |-> FALSE, corr |-> ZeroCorr, ts |-> 0]]

\* vwap_history.c:26  pthread_mutex_init: the history lock is free, no call is
\* in progress
InitSearch ==
  srch = [lock |-> "none", a_pc |-> "a_idle", a_vwap |-> NaN, s_pc |-> "s_idle",
          s |-> NoSearch]

\* the mutexes: the ring lock, one lock per window, one lock per history
Mutexes ==
  {<<"ring", 0>>} \cup {<<"window", i>> : i \in 0..(NUM_SYMBOLS - 1)}
                 \cup {<<"history", i>> : i \in 0..(NUM_SYMBOLS - 1)}

\* the threads that take them: websocket, trade processor and the two workers
LockThreads == {"ws", "tp", "vwap", "corr"}

\* main.c:88-95  every mutex is initialised free, the ring and the histories
\* are empty, and every thread is at the top of its loop
InitLocks ==
  mtx = [owner  |-> [m \in Mutexes |-> "none"],
         pc     |-> [t \in LockThreads |-> "top"],
         i      |-> [t \in LockThreads |-> 0],
         j      |-> 0,
         count  |-> 0,
         hsize  |-> [i \in 0..(NUM_SYMBOLS - 1) |-> 0]]

\* websocket.c:16-17  ws_client = NULL; the two counters are globals without
\* an initialiser, so they start at 0
InitWs ==
  ws = [pc |-> "ws_top", client |-> "null", reconnect_attempts |-> 0,
        reconnect_backoff_s |-> 0, slept |-> <<>>]

Init ==
  /\ InitSig /\ InitSched /\ InitQueue /\ InitWindow /\ InitSnap /\ InitHist
  /\ InitTimer /\ InitCorr /\ InitProc /\ InitWs /\ InitSearch /\ InitLocks

(***************************************************************************)
(* Termination handler, main.c:146-157.  The flag is written first and     *)
(* cond_not_empty is signalled afterwards, neither under queue->lock.      *)
(***************************************************************************)

\* pthread_cond_signal: wakes at most one thread asleep on the condition
CondSignal(waiters) ==
  IF waiters = {} THEN {} ELSE waiters \ {CHOOSE t \in waiters : TRUE}

\* main.c:152  shutdown_requested = 1
on_termination_signal_flag ==
  /\ handler_pc = "idle"
  /\ shutdown_requested' = TRUE
  /\ handler_pc' = "flagged"
  /\ UNCHANGED <<schedVars, queueVars, winVars, moreVars>>

\* main.c:155-156  lws_cancel_service; pthread_cond_signal(&raw_queue.cond_not_empty)
on_termination_signal_wake ==
  /\ handler_pc = "flagged"
  /\ handler_pc' = "done"
  /\ cond_waiters' = CondSignal(cond_waiters)
  /\ UNCHANGED <<shutdown_requested, schedVars, winVars, moreVars>>
  /\ UNCHANGED <<q_buffer, head_idx, tail_idx, q_lock, prod_pc, prod_seq,
                 cons_pc, msg_out, pop_ret, q_count, pushed, dropped, popped>>

(***************************************************************************)
(* pthread_barrier_wait.  A thread that arrives joins the waiters; the     *)
(* arrival that completes the count releases every waiter and passes       *)
(* itself.  ncross counts, per thread, the crossings of each barrier.      *)
(***************************************************************************)

\* bug variant: the barriers initialised for two threads instead of three
BarrierFull_count_two(b) == Cardinality(bar_waiting[b]) + 1 >= BARRIER_COUNT - 1

BarrierFull(b) == Cardinality(bar_waiting[b]) + 1 >= BARRIER_COUNT

BarrierArrive(t, b, next) ==
  /\ inbar[t] = "no"
  /\ IF BarrierFull(b)
     THEN /\ bar_waiting' = [bar_waiting EXCEPT ![b] = {}]
          /\ inbar' = [u \in Threads |->
                         IF u \in bar_waiting[b] THEN "released" ELSE inbar[u]]
          /\ pc' = [pc EXCEPT ![t] = next]
          /\ ncross' = [ncross EXCEPT ![b] =
                         [u \in Threads |->
                            IF u = t \/ u \in bar_waiting[b] THEN @[u] + 1 ELSE @[u]]]
     ELSE /\ bar_waiting' = [bar_waiting EXCEPT ![b] = @ \cup {t}]
          /\ inbar' = [inbar EXCEPT ![t] = "waiting"]
          /\ UNCHANGED <<pc, ncross>>

BarrierReturn(t, next) ==
  /\ inbar[t] = "released"
  /\ inbar' = [inbar EXCEPT ![t] = "no"]
  /\ pc' = [pc EXCEPT ![t] = next]
  /\ UNCHANGED <<bar_waiting, ncross>>

BarrierWait(t, b, next) == BarrierArrive(t, b, next) \/ BarrierReturn(t, next)


(***************************************************************************)
(* Scheduler thread, scheduler.c:19-132.  The wake-up time is left open:   *)
(* clock_nanosleep may complete at any moment.                             *)
(***************************************************************************)

SchedFrame == UNCHANGED <<sigVars, queueVars, winVars, moreVars>>

\* scheduler.c:90  (now_ms() / MS_PER_MINUTE) * MS_PER_MINUTE
MinuteFloor(t) == (t \div MS_PER_MINUTE) * MS_PER_MINUTE

\* the wall clock advances
TimePasses ==
  /\ now_ms < MaxNowMs
  /\ now_ms' = now_ms + 1
  /\ UNCHANGED <<pc, bar_waiting, inbar, current_minute_ms, sym, ncross,
                 work_tick, tick_stamp, rows>>
  /\ SchedFrame

SchedGoto(next) ==
  /\ pc' = [pc EXCEPT !["sched"] = next]
  /\ UNCHANGED <<bar_waiting, inbar, current_minute_ms, now_ms, sym, ncross,
                 work_tick, tick_stamp, rows>>
  /\ SchedFrame

\* scheduler.c:37  while (!shutdown_requested), then lines 39-61
scheduler_loop_top ==
  /\ pc["sched"] = "s_top"
  /\ SchedGoto(IF shutdown_requested THEN "s_exit" ELSE "s_sleep_chk")

\* scheduler.c:64  while (!shutdown_requested) around clock_nanosleep
scheduler_sleep_check ==
  /\ pc["sched"] = "s_sleep_chk"
  /\ SchedGoto(IF shutdown_requested THEN "s_chk" ELSE "s_sleep")

\* scheduler.c:66-72  clock_nanosleep returns 0 (or, 78-83, an error): break
scheduler_sleep_done ==
  /\ pc["sched"] = "s_sleep"
  /\ Len(tick_stamp) < MaxTicks
  /\ SchedGoto("s_chk")

\* scheduler.c:73-77  clock_nanosleep returns EINTR: retry
scheduler_sleep_eintr ==
  /\ pc["sched"] = "s_sleep"
  /\ SchedGoto("s_sleep_chk")

\* scheduler.c:86-87  if (shutdown_requested) break
scheduler_after_sleep ==
  /\ pc["sched"] = "s_chk"
  /\ SchedGoto(IF shutdown_requested THEN "s_exit" ELSE "s_stamp")

\* scheduler.c:90-93  current_minute_ms = ...; work_start_ns = ...
scheduler_stamp ==
  /\ pc["sched"] = "s_stamp"
  /\ current_minute_ms' = MinuteFloor(now_ms)
  /\ tick_stamp' = Append(tick_stamp, MinuteFloor(now_ms))
  /\ pc' = [pc EXCEPT !["sched"] = "s_start"]
  /\ UNCHANGED <<bar_waiting, inbar, now_ms, sym, ncross, work_tick, rows>>
  /\ SchedFrame

\* scheduler.c:96  pthread_barrier_wait(&compute_start_barrier)
scheduler_start_barrier ==
  /\ pc["sched"] = "s_start"
  /\ BarrierWait("sched", "compute_start", "s_done")
  /\ UNCHANGED <<current_minute_ms, now_ms, sym, work_tick, tick_stamp, rows>>
  /\ SchedFrame

\* bug variant: the coordinator does not join compute_done
scheduler_done_barrier_skipped ==
  /\ pc["sched"] = "s_done"
  /\ SchedGoto("s_log")

\* scheduler.c:99  pthread_barrier_wait(&compute_done_barrier)
scheduler_done_barrier ==
  /\ pc["sched"] = "s_done"
  /\ BarrierWait("sched", "compute_done", "s_log")
  /\ UNCHANGED <<current_minute_ms, now_ms, sym, work_tick, tick_stamp, rows>>
  /\ SchedFrame

\* scheduler.c:101-121  EMA update, metrics rows, scheduled_time_ns += PERIOD_NS
scheduler_log_tick ==
  /\ pc["sched"] = "s_log"
  /\ SchedGoto("s_top")

\* scheduler.c:125  if (shutdown_requested) after the loop
scheduler_exit_check ==
  /\ pc["sched"] = "s_exit"
  /\ SchedGoto(IF shutdown_requested THEN "s_x_start" ELSE "returned")

\* scheduler.c:127  pthread_barrier_wait(&compute_start_barrier)
scheduler_exit_start_barrier ==
  /\ pc["sched"] = "s_x_start"
  /\ BarrierWait("sched", "compute_start", "s_x_done")
  /\ UNCHANGED <<current_minute_ms, now_ms, sym, work_tick, tick_stamp, rows>>
  /\ SchedFrame

\* scheduler.c:128-131  pthread_barrier_wait(&compute_done_barrier); return
scheduler_exit_done_barrier ==
  /\ pc["sched"] = "s_x_done"
  /\ BarrierWait("sched", "compute_done", "returned")
  /\ UNCHANGED <<current_minute_ms, now_ms, sym, work_tick, tick_stamp, rows>>
  /\ SchedFrame

(***************************************************************************)
(* Worker threads: vwap_worker_fn (vwap_calculator.c:23-45) and            *)
(* correlation_worker_fn (correlation.c:121-190) share the loop skeleton.  *)
(***************************************************************************)

WorkerGoto(w, next) ==
  /\ pc' = [pc EXCEPT ![w] = next]
  /\ UNCHANGED <<bar_waiting, inbar, current_minute_ms, now_ms, sym, ncross,
                 work_tick, tick_stamp, rows>>
  /\ SchedFrame

\* vwap_calculator.c:25, correlation.c:125  while (!shutdown_requested)
worker_loop_top(w) ==
  /\ pc[w] = "w_top"
  /\ WorkerGoto(w, IF shutdown_requested THEN "returned" ELSE "w_start")

\* vwap_calculator.c:27, correlation.c:127  pthread_barrier_wait(&compute_start_barrier)
worker_start_barrier(w) ==
  /\ pc[w] = "w_start"
  /\ BarrierWait(w, "compute_start", "w_chk")
  /\ UNCHANGED <<current_minute_ms, now_ms, sym, work_tick, tick_stamp, rows>>
  /\ SchedFrame

\* vwap_calculator.c:29-34, correlation.c:129-138  if (shutdown_requested) ... else enter the loop
worker_after_start(w) ==
  /\ pc[w] = "w_chk"
  /\ IF shutdown_requested
     THEN /\ pc' = [pc EXCEPT ![w] = "w_x_done"]
          /\ UNCHANGED <<sym, work_tick>>
     ELSE /\ pc' = [pc EXCEPT ![w] = "w_work"]
          /\ sym' = [sym EXCEPT ![w] = 0]
          /\ work_tick' = [work_tick EXCEPT ![w] = ncross["compute_start"][w]]
  /\ UNCHANGED <<bar_waiting, inbar, current_minute_ms, now_ms, ncross,
                 tick_stamp, rows>>
  /\ SchedFrame

\* vwap_calculator.c:32-33, correlation.c:132-133  barrier wait, then break and return
worker_exit_done_barrier(w) ==
  /\ pc[w] = "w_x_done"
  /\ BarrierWait(w, "compute_done", "returned")
  /\ UNCHANGED <<current_minute_ms, now_ms, sym, work_tick, tick_stamp, rows>>
  /\ SchedFrame

\* one iteration of the per-symbol loop; emit tells whether a point/row is produced
WorkerSymbolStep(w, emit) ==
  /\ pc[w] = "w_work"
  /\ sym[w] < NUM_SYMBOLS
  /\ rows' = IF emit
             THEN rows \cup {<<w, work_tick[w], current_minute_ms>>}
             ELSE rows
  /\ sym' = [sym EXCEPT ![w] = @ + 1]
  /\ pc' = [pc EXCEPT ![w] = IF sym[w] + 1 = NUM_SYMBOLS THEN "w_done" ELSE "w_work"]
  /\ UNCHANGED <<bar_waiting, inbar, current_minute_ms, now_ms, ncross,
                 work_tick, tick_stamp>>
  /\ SchedFrame

\* vwap_calculator.c:34-41  snapshot, vwap_history_append(current_minute_ms), log row
vwap_worker_symbol == WorkerSymbolStep("vwap", TRUE)

\* correlation.c:138-184  search; a row with current_minute_ms only if found_any
correlation_worker_symbol == \E found_any \in BOOLEAN : WorkerSymbolStep("corr", found_any)

\* vwap_calculator.c:43, correlation.c:186  pthread_barrier_wait(&compute_done_barrier)
worker_done_barrier(w) ==
  /\ pc[w] = "w_done"
  /\ BarrierWait(w, "compute_done", "w_top")
  /\ UNCHANGED <<current_minute_ms, now_ms, sym, work_tick, tick_stamp, rows>>
  /\ SchedFrame

NextSched ==
  \/ on_termination_signal_flag
  \/ on_termination_signal_wake
  \/ TimePasses
  \/ scheduler_loop_top
  \/ scheduler_sleep_check
  \/ scheduler_sleep_done
  \/ scheduler_sleep_eintr
  \/ scheduler_after_sleep
  \/ scheduler_stamp
  \/ scheduler_start_barrier
  \/ scheduler_done_barrier
  \/ scheduler_log_tick
  \/ scheduler_exit_check
  \/ scheduler_exit_start_barrier
  \/ scheduler_exit_done_barrier
  \/ \E w \in Workers : worker_loop_top(w)
  \/ \E w \in Workers : worker_start_barrier(w)
  \/ \E w \in Workers : worker_after_start(w)
  \/ \E w \in Workers : worker_exit_done_barrier(w)
  \/ vwap_worker_symbol
  \/ correlation_worker_symbol
  \/ \E w \in Workers : worker_done_barrier(w)

SpecSched == Init /\ [][NextSched]_vars


(***************************************************************************)
(* Claims about the scheduler and the workers (checked under SpecSched)    *)
(***************************************************************************)

Crossed(b, t) == ncross[b][t]

\* a worker is inside a tick: it has crossed compute_start and not yet compute_done
InTick(w) == Crossed("compute_start", w) = Crossed("compute_done", w) + 1

\* C1: once shutdown_requested is set, the scheduler and both workers all
\* return and no thread stays blocked on compute_start or compute_done.
\* A barrier of count 3 that one of the three threads will never reach again
\* cannot fill, so the claim requires that no thread waits on a barrier
\* while another thread has already returned.
C1_NoThreadBlockedForever ==
  \A t \in Threads :
    inbar[t] = "waiting" => \A u \in Threads : pc[u] # "returned"

\* C2: in every tick the three threads cross compute_start once and then
\* compute_done once; a worker runs its per-symbol loop only between its
\* crossings of compute_start and compute_done of that tick; the coordinator
\* is past compute_done of a tick only when both workers finished its work.
C2_TickBarrierDiscipline ==
  /\ \A b \in Barriers : \A t, u \in Threads : Crossed(b, t) = Crossed(b, u)
  /\ \A t \in Threads :
       /\ Crossed("compute_done", t) <= Crossed("compute_start", t)
       /\ Crossed("compute_start", t) <= Crossed("compute_done", t) + 1
  /\ \A w \in Workers :
       pc[w] = "w_work" => InTick(w) /\ work_tick[w] = Crossed("compute_start", w)
  /\ \A w \in Workers :
       (work_tick[w] >= 1 /\ Crossed("compute_done", "sched") >= work_tick[w])
         => (pc[w] # "w_work" /\ sym[w] = NUM_SYMBOLS)
  /\ pc["sched"] = "s_log" => \A w \in Workers : pc[w] # "w_work"

\* C2 witness: the coordinator logs the second tick, both workers having
\* done the work of that tick
C2_Witness ==
  /\ pc["sched"] = "s_log"
  /\ Crossed("compute_done", "sched") = 2
  /\ \A w \in Workers : work_tick[w] = 2 /\ sym[w] = NUM_SYMBOLS
  /\ \E r \in rows : r[1] = "corr" /\ r[2] = 2

\* the part of C3 that does not depend on where the workers wait: no write
\* happens while a worker is inside a tick, and every point and row of a
\* tick carries the stamp written for that tick
C3_StampStableInTick ==
  /\ \A w \in Workers :
       InTick(w) =>
         /\ pc["sched"] # "s_stamp"
         /\ Len(tick_stamp) >= 1 => current_minute_ms = tick_stamp[Len(tick_stamp)]
         /\ pc[w] = "w_work" => work_tick[w] = Len(tick_stamp)
  /\ \A r \in rows : r[2] \in 1..Len(tick_stamp) /\ r[3] = tick_stamp[r[2]]

\* C3 as claimed: current_minute_ms is written only while both workers are
\* parked (blocked) on compute_start; no write happens inside a tick, so all
\* points and rows of a tick carry the same stamp.
C3_WrittenOnlyWhileParked ==
  /\ pc["sched"] = "s_stamp" =>
       \A w \in Workers : pc[w] = "w_start" /\ inbar[w] = "waiting"
  /\ C3_StampStableInTick

\* C3 as amended: current_minute_ms is written only while neither worker is
\* inside a tick: each worker is parked on compute_start, still on its way
\* to it (not yet back from compute_done, or at its loop test), or has
\* returned after a shutdown request; the rest as claimed.
C3_WrittenOnlyOutsideTick ==
  /\ pc["sched"] = "s_stamp" =>
       \A w \in Workers :
         /\ ~InTick(w)
         /\ \/ pc[w] \in {"w_top", "w_start", "returned"}
            \/ pc[w] = "w_done" /\ inbar[w] = "released"
  /\ C3_StampStableInTick

\* C3 witness: both workers have produced a point/row in two ticks whose
\* stamps differ, and the scheduler wrote the second stamp while a worker was
\* not parked
C3_Witness ==
  /\ Len(tick_stamp) = 2
  /\ tick_stamp[1] # tick_stamp[2]
  /\ \A w \in Workers : \A k \in 1..2 : <<w, k, tick_stamp[k]>> \in rows


(***************************************************************************)
(* Ingress ring, queue.c.  Producers call raw_queue_push (from the         *)
(* transport callback, websocket.c:88); the trade processor, thread "tp",  *)
(* is the only caller of raw_queue_pop (main.c:114).                       *)
(***************************************************************************)

QueueFrame == UNCHANGED <<schedVars, winVars, moreVars>>

\* (idx + 1) % queue->capacity
NextIdx(i) == (i + 1) % RAW_TRADE_QUEUE_SIZE

\* bug variant: the full test without the wrap-around
QueueFull_no_wrap == tail_idx + 1 = head_idx

\* queue.c:44  ((tail_idx + 1) % capacity) == head_idx
QueueFull == NextIdx(tail_idx) = head_idx

\* queue.c:68, 73  head_idx == tail_idx
QueueEmpty == head_idx = tail_idx

\* the message a producer passes to its next push: <<producer, sequence number>>
NextMsg(p) == <<p, prod_seq[p] + 1>>

\* queue.c:42  pthread_mutex_lock; the call is entered here
raw_queue_push_lock(p) ==
  /\ prod_pc[p] = "idle"
  /\ prod_seq[p] < MaxPush
  /\ q_lock = NoThread
  /\ q_lock' = p
  /\ prod_pc' = [prod_pc EXCEPT ![p] = "p_full"]
  /\ pushed' = Append(pushed, NextMsg(p))
  /\ UNCHANGED <<q_buffer, head_idx, tail_idx, cond_waiters, prod_seq, cons_pc,
                 msg_out, pop_ret, q_count, dropped, popped>>
  /\ UNCHANGED sigVars /\ QueueFrame

\* bug variant: a full ring rejects the new message instead of dropping the oldest
raw_queue_push_full_rejects(p) ==
  /\ prod_pc[p] = "p_full"
  /\ prod_pc' = [prod_pc EXCEPT ![p] = IF QueueFull THEN "p_unlock" ELSE "p_store"]
  /\ UNCHANGED <<q_buffer, head_idx, tail_idx, q_lock, cond_waiters, prod_seq,
                 cons_pc, msg_out, pop_ret, q_count, pushed, dropped, popped>>
  /\ UNCHANGED sigVars /\ QueueFrame

\* queue.c:44-48  while (full) head_idx = (head_idx + 1) % capacity
raw_queue_push_full(p) ==
  /\ prod_pc[p] = "p_full"
  /\ IF QueueFull
     THEN /\ head_idx' = NextIdx(head_idx)
          /\ dropped' = Append(dropped, q_buffer[head_idx])
          /\ q_count' = q_count - 1
          /\ UNCHANGED prod_pc
     ELSE /\ prod_pc' = [prod_pc EXCEPT ![p] = "p_store"]
          /\ UNCHANGED <<head_idx, dropped, q_count>>
  /\ UNCHANGED <<q_buffer, tail_idx, q_lock, cond_waiters, prod_seq, cons_pc,
                 msg_out, pop_ret, pushed, popped>>
  /\ UNCHANGED sigVars /\ QueueFrame

\* queue.c:50-52  buffer[tail_idx] = *msg_in; advance tail_idx; pthread_cond_signal
raw_queue_push_store(p) ==
  /\ prod_pc[p] = "p_store"
  /\ q_buffer' = [q_buffer EXCEPT ![tail_idx] = NextMsg(p)]
  /\ tail_idx' = NextIdx(tail_idx)
  /\ cond_waiters' = CondSignal(cond_waiters)
  /\ q_count' = q_count + 1
  /\ prod_pc' = [prod_pc EXCEPT ![p] = "p_unlock"]
  /\ UNCHANGED <<head_idx, q_lock, prod_seq, cons_pc, msg_out, pop_ret, pushed,
                 dropped, popped>>
  /\ UNCHANGED sigVars /\ QueueFrame

\* queue.c:54-55  pthread_mutex_unlock; return
raw_queue_push_unlock(p) ==
  /\ prod_pc[p] = "p_unlock"
  /\ q_lock' = NoThread
  /\ prod_pc' = [prod_pc EXCEPT ![p] = "idle"]
  /\ prod_seq' = [prod_seq EXCEPT ![p] = @ + 1]
  /\ UNCHANGED <<q_buffer, head_idx, tail_idx, cond_waiters, cons_pc, msg_out,
                 pop_ret, q_count, pushed, dropped, popped>>
  /\ UNCHANGED sigVars /\ QueueFrame

ConsGoto(next) ==
  /\ cons_pc' = next
  /\ UNCHANGED <<q_buffer, head_idx, tail_idx, q_lock, cond_waiters, prod_pc,
                 prod_seq, msg_out, pop_ret, q_count, pushed, dropped, popped>>
  /\ UNCHANGED sigVars /\ QueueFrame

\* main.c:112  while (!shutdown_requested)
trade_processor_loop_top ==
  /\ cons_pc = "tp_top"
  /\ ConsGoto(IF shutdown_requested THEN "returned" ELSE "c_lock")

\* queue.c:66  pthread_mutex_lock; also the re-acquisition when pthread_cond_wait wakes
raw_queue_pop_lock ==
  /\ \/ cons_pc = "c_lock"
     \/ cons_pc = "c_wait" /\ "tp" \notin cond_waiters
  /\ q_lock = NoThread
  /\ q_lock' = "tp"
  /\ cons_pc' = "c_check"
  /\ UNCHANGED <<q_buffer, head_idx, tail_idx, cond_waiters, prod_pc, prod_seq,
                 msg_out, pop_ret, q_count, pushed, dropped, popped>>
  /\ UNCHANGED sigVars /\ QueueFrame

\* queue.c:68  while (head_idx == tail_idx && !shutdown_requested): the test
raw_queue_pop_check ==
  /\ cons_pc = "c_check"
  /\ ConsGoto(IF QueueEmpty /\ ~shutdown_requested THEN "c_cond_wait" ELSE "c_check2")

\* queue.c:70  pthread_cond_wait: releases the mutex and goes to sleep in one step
raw_queue_pop_cond_wait ==
  /\ cons_pc = "c_cond_wait"
  /\ q_lock' = NoThread
  /\ cond_waiters' = cond_waiters \cup {"tp"}
  /\ cons_pc' = "c_wait"
  /\ UNCHANGED <<q_buffer, head_idx, tail_idx, prod_pc, prod_seq, msg_out,
                 pop_ret, q_count, pushed, dropped, popped>>
  /\ UNCHANGED sigVars /\ QueueFrame

\* pthread_cond_wait may wake without a signal (the reason for the loop at queue.c:68)
cond_spurious_wakeup ==
  /\ cons_pc = "c_wait"
  /\ "tp" \in cond_waiters
  /\ cond_waiters' = cond_waiters \ {"tp"}
  /\ UNCHANGED <<q_buffer, head_idx, tail_idx, q_lock, prod_pc, prod_seq, cons_pc,
                 msg_out, pop_ret, q_count, pushed, dropped, popped>>
  /\ UNCHANGED sigVars /\ QueueFrame

\* bug variant: the shutdown test without the emptiness test
raw_queue_pop_check2_flag_only ==
  /\ cons_pc = "c_check2"
  /\ ConsGoto(IF shutdown_requested THEN "c_ret0" ELSE "c_take")

\* queue.c:73  if (shutdown_requested && head_idx == tail_idx)
raw_queue_pop_check2 ==
  /\ cons_pc = "c_check2"
  /\ ConsGoto(IF shutdown_requested /\ QueueEmpty THEN "c_ret0" ELSE "c_take")

\* queue.c:75-76  pthread_mutex_unlock; return 0
raw_queue_pop_return0 ==
  /\ cons_pc = "c_ret0"
  /\ q_lock' = NoThread
  /\ pop_ret' = 0
  /\ cons_pc' = "tp_after_pop"
  /\ UNCHANGED <<q_buffer, head_idx, tail_idx, cond_waiters, prod_pc, prod_seq,
                 msg_out, q_count, pushed, dropped, popped>>
  /\ UNCHANGED sigVars /\ QueueFrame

\* bug variant: pop takes the newest message instead of the oldest
raw_queue_pop_take_newest ==
  /\ cons_pc = "c_take"
  /\ msg_out' = q_buffer[(tail_idx + RAW_TRADE_QUEUE_SIZE - 1) % RAW_TRADE_QUEUE_SIZE]
  /\ tail_idx' = (tail_idx + RAW_TRADE_QUEUE_SIZE - 1) % RAW_TRADE_QUEUE_SIZE
  /\ popped' = Append(popped, msg_out')
  /\ q_count' = q_count - 1
  /\ cons_pc' = "c_unlock"
  /\ UNCHANGED <<q_buffer, head_idx, q_lock, cond_waiters, prod_pc, prod_seq,
                 pop_ret, pushed, dropped>>
  /\ UNCHANGED sigVars /\ QueueFrame

\* queue.c:79-80  *msg_out = buffer[head_idx]; advance head_idx
raw_queue_pop_take ==
  /\ cons_pc = "c_take"
  /\ msg_out' = q_buffer[head_idx]
  /\ head_idx' = NextIdx(head_idx)
  /\ popped' = Append(popped, q_buffer[head_idx])
  /\ q_count' = q_count - 1
  /\ cons_pc' = "c_unlock"
  /\ UNCHANGED <<q_buffer, tail_idx, q_lock, cond_waiters, prod_pc, prod_seq,
                 pop_ret, pushed, dropped>>
  /\ UNCHANGED sigVars /\ QueueFrame

\* queue.c:82-84  pthread_mutex_unlock; return 1
raw_queue_pop_return1 ==
  /\ cons_pc = "c_unlock"
  /\ q_lock' = NoThread
  /\ pop_ret' = 1
  /\ cons_pc' = "tp_after_pop"
  /\ UNCHANGED <<q_buffer, head_idx, tail_idx, cond_waiters, prod_pc, prod_seq,
                 msg_out, q_count, pushed, dropped, popped>>
  /\ UNCHANGED sigVars /\ QueueFrame

\* main.c:114-133  pop returned 0: break if shutdown_requested, else continue;
\* pop returned 1: parse and process the message, then loop
trade_processor_after_pop ==
  /\ cons_pc = "tp_after_pop"
  /\ ConsGoto(IF pop_ret = 0 /\ shutdown_requested THEN "returned" ELSE "tp_top")

NextQueue ==
  \/ on_termination_signal_flag
  \/ on_termination_signal_wake
  \/ \E p \in Producers : raw_queue_push_lock(p)
  \/ \E p \in Producers : raw_queue_push_full(p)
  \/ \E p \in Producers : raw_queue_push_store(p)
  \/ \E p \in Producers : raw_queue_push_unlock(p)
  \/ trade_processor_loop_top
  \/ raw_queue_pop_lock
  \/ raw_queue_pop_check
  \/ raw_queue_pop_cond_wait
  \/ cond_spurious_wakeup
  \/ raw_queue_pop_check2
  \/ raw_queue_pop_return0
  \/ raw_queue_pop_take
  \/ raw_queue_pop_return1
  \/ trade_processor_after_pop

SpecQueue == Init /\ [][NextQueue]_vars


(***************************************************************************)
(* Claims about the ingress ring (checked under SpecQueue)                 *)
(***************************************************************************)

Range(seq) == {seq[i] : i \in 1..Len(seq)}

Min(a, b) == IF a <= b THEN a ELSE b

\* (tail_idx - head_idx) mod Q
Occupancy == (tail_idx + RAW_TRADE_QUEUE_SIZE - head_idx) % RAW_TRADE_QUEUE_SIZE

\* the live slots of the ring, oldest first
RingContents == [i \in 1..Occupancy |-> q_buffer[(head_idx + i - 1) % RAW_TRADE_QUEUE_SIZE]]

\* the last n elements of a sequence
LastN(seq, n) == SubSeq(seq, Len(seq) - n + 1, Len(seq))

\* the pushed messages that no push has dropped, in push order
Survivors == SelectSeq(pushed, LAMBDA m : m \notin Range(dropped))

NoPushInProgress == \A p \in Producers : prod_pc[p] = "idle"

\* C4: in every state of the ring 0 <= head_idx < Q, 0 <= tail_idx < Q, the
\* occupancy (tail_idx - head_idx) mod Q is at most Q - 1 and is the number
\* of messages stored and not yet dropped or popped; the ring holds no
\* message exactly when head_idx = tail_idx.
C4_RingIndexInvariant ==
  /\ head_idx \in 0..(RAW_TRADE_QUEUE_SIZE - 1)
  /\ tail_idx \in 0..(RAW_TRADE_QUEUE_SIZE - 1)
  /\ Occupancy <= RAW_TRADE_QUEUE_SIZE - 1
  /\ q_count = Occupancy
  /\ (q_count = 0) <=> (head_idx = tail_idx)

\* C4 witness: the ring is full (Q - 1 messages) with the indices wrapped
\* around, pushes of both producers and pops having happened
C4_Witness ==
  /\ q_count = RAW_TRADE_QUEUE_SIZE - 1
  /\ tail_idx < head_idx
  /\ Len(popped) >= 1
  /\ Len(dropped) >= 1
  /\ \A p \in Producers : prod_seq[p] >= 1

\* C5: with a stalled consumer (no pop so far), after n completed pushes the
\* ring holds exactly the last min(n, Q-1) pushed messages in push order; the
\* messages dropped are exactly the older ones, one per push onto a full ring.
C5_DropOldestKeepsNewest ==
  (popped = <<>> /\ NoPushInProgress) =>
     /\ RingContents = LastN(pushed, Min(Len(pushed), RAW_TRADE_QUEUE_SIZE - 1))
     /\ dropped \o RingContents = pushed

\* C5 witness: Q = 4, five pushes, no pop: exactly #3, #4, #5 remain
C5_Witness ==
  /\ popped = <<>>
  /\ NoPushInProgress
  /\ Len(pushed) = 5
  /\ RingContents = <<pushed[3], pushed[4], pushed[5]>>
  /\ dropped = <<pushed[1], pushed[2]>>

\* C6: the popped messages of any one producer are popped in the order that
\* producer pushed them; with a single producer the popped messages followed
\* by the ring contents are exactly the surviving messages in push order,
\* each at most once.
C6_PerProducerFifo ==
  /\ \A i, j \in 1..Len(popped) :
       (i < j /\ popped[i][1] = popped[j][1]) => popped[i][2] < popped[j][2]
  /\ (prod_seq["p2"] = 0 /\ NoPushInProgress) =>
       /\ popped \o RingContents = Survivors
       /\ \A i, j \in 1..Len(popped) : i < j => popped[i][2] < popped[j][2]

\* C6 witness: both producers have had messages popped, one producer at
\* least two of them, and an older message was dropped in between
C6_Witness ==
  /\ \E i, j \in 1..Len(popped) : i < j /\ popped[i][1] = popped[j][1]
  /\ \E i, j \in 1..Len(popped) : popped[i][1] # popped[j][1]
  /\ Len(dropped) >= 1

\* C7: raw_queue_pop returns 0 only with shutdown_requested set and the ring
\* empty; when it returns 1 it has copied out the message at head_idx (the
\* oldest surviving one) and advanced head_idx by one, also when shutdown is
\* already requested; it never takes from, or returns on, an empty ring
\* without shutdown requested.
C7_PopResult ==
  /\ cons_pc = "c_ret0" => (shutdown_requested /\ QueueEmpty)
  /\ (cons_pc = "tp_after_pop" /\ pop_ret = 0) => shutdown_requested
  /\ cons_pc = "c_take" => ~QueueEmpty
  /\ cons_pc = "c_unlock" =>
       /\ Len(popped) >= 1
       /\ msg_out = popped[Len(popped)]
       /\ msg_out \in Range(pushed)
       /\ popped \o RingContents = Survivors
  /\ (cons_pc = "tp_after_pop" /\ pop_ret = 1) =>
       (Len(popped) >= 1 /\ msg_out = popped[Len(popped)])

\* C7 witness: pop is returning 1 with shutdown already requested and
\* messages still in the ring
C7_Witness ==
  /\ cons_pc = "c_unlock"
  /\ shutdown_requested
  /\ ~QueueEmpty

\* C8: if the consumer is in raw_queue_pop on an empty ring and the handler
\* sets shutdown_requested and signals cond_not_empty, pop returns 0 under
\* every interleaving, with no further push arriving.  Once the handler has
\* finished and no push is in progress, a consumer still asleep on
\* cond_not_empty with the ring empty has nobody left to wake it, so the
\* claim requires that this state does not occur.
C8_ShutdownWakesPop ==
  (handler_pc = "done" /\ QueueEmpty /\ NoPushInProgress)
     => ~(cons_pc = "c_wait" /\ "tp" \in cond_waiters)


(***************************************************************************)
(* Sliding window, sliding_window.c.  Prices, sizes and sums are integers, *)
(* so the sums are exact.                                                  *)
(***************************************************************************)

\* bug variant: the head entry is removed without being subtracted from the sums
RemoveHead_keeps_sums(w) ==
  [w EXCEPT
     !.head_idx = (w.head_idx + 1) % WINDOW_CAPACITY,
     !.size = @ - 1]

\* sliding_window.c:50-53 and 60-63: subtract the head entry and advance head_idx
RemoveHead(w) ==
  [w EXCEPT
     !.sum_price_volume = @ - w.buffer[w.head_idx].price * w.buffer[w.head_idx].size,
     !.sum_volume = @ - w.buffer[w.head_idx].size,
     !.head_idx = (w.head_idx + 1) % WINDOW_CAPACITY,
     !.size = @ - 1]

\* sliding_window.c:48-54  an if in place of the while: one entry at most is pruned
PruneExpired_once(w, expiry_cutoff_ms) ==
  IF w.size > 0 /\ w.buffer[w.head_idx].trade_ts_ms < expiry_cutoff_ms
  THEN RemoveHead(w)
  ELSE w

\* sliding_window.c:48-54  the loop with <= in place of <
RECURSIVE PruneExpired_inclusive(_, _)
PruneExpired_inclusive(w, expiry_cutoff_ms) ==
  IF w.size > 0 /\ w.buffer[w.head_idx].trade_ts_ms <= expiry_cutoff_ms
  THEN PruneExpired_inclusive(RemoveHead(w), expiry_cutoff_ms)
  ELSE w

\* sliding_window.c:48-54  while (size > 0 && head.trade_ts_ms < expiry_cutoff_ms)
RECURSIVE PruneExpired(_, _)
PruneExpired(w, expiry_cutoff_ms) ==
  IF w.size > 0 /\ w.buffer[w.head_idx].trade_ts_ms < expiry_cutoff_ms
  THEN PruneExpired(RemoveHead(w), expiry_cutoff_ms)
  ELSE w

\* sliding_window.c:57-64  a full window is left as it is
EvictIfFull_never(w) == w

\* sliding_window.c:57-64  if (size == capacity) remove the oldest entry
EvictIfFull(w) == IF w.size = WINDOW_CAPACITY THEN RemoveHead(w) ELSE w

\* sliding_window.c:67-75  the append without size++
AppendTrade_keeps_size(w, ts_ms, price, size) ==
  [w EXCEPT
     !.buffer[w.tail_idx] = [trade_ts_ms |-> ts_ms, price |-> price, size |-> size],
     !.tail_idx = (w.tail_idx + 1) % WINDOW_CAPACITY,
     !.sum_price_volume = @ + price * size,
     !.sum_volume = @ + size]

\* sliding_window.c:67-75  the append with the price alone added to sum_price_volume
AppendTrade_counts_price(w, ts_ms, price, size) ==
  [w EXCEPT
     !.buffer[w.tail_idx] = [trade_ts_ms |-> ts_ms, price |-> price, size |-> size],
     !.tail_idx = (w.tail_idx + 1) % WINDOW_CAPACITY,
     !.size = @ + 1,
     !.sum_price_volume = @ + price,
     !.sum_volume = @ + size]

\* sliding_window.c:67-75  store at tail_idx, advance it, size++, add to the sums
AppendTrade(w, ts_ms, price, size) ==
  [w EXCEPT
     !.buffer[w.tail_idx] = [trade_ts_ms |-> ts_ms, price |-> price, size |-> size],
     !.tail_idx = (w.tail_idx + 1) % WINDOW_CAPACITY,
     !.size = @ + 1,
     !.sum_price_volume = @ + price * size,
     !.sum_volume = @ + size]

\* sliding_window.c:42-78  the whole call, under w->lock
sliding_window_add_trade(w, ts_ms, price, size) ==
  AppendTrade(EvictIfFull(PruneExpired(w, ts_ms - WINDOW_MS)), ts_ms, price, size)

\* main.c:132  the trade processor adds a parsed trade to the window
add_trade ==
  \E ts_ms \in 0..MaxTs, ps \in TradeInputs :
    /\ win' = sliding_window_add_trade(win, ts_ms, ps[1], ps[2])
    /\ last_add' =
         [pruned  |-> win.size - PruneExpired(win, ts_ms - WINDOW_MS).size,
          evicted |-> PruneExpired(win, ts_ms - WINDOW_MS).size = WINDOW_CAPACITY]
    /\ vwap_out' = NoSnapshot
    /\ UNCHANGED <<sigVars, schedVars, queueVars, moreVars>>

RECURSIVE GCD(_, _)
\* greatest common divisor of two naturals
GCD(a, b) == IF b = 0 THEN a ELSE GCD(b, a % b)

\* the quotient n / d of two numbers, d > 0, as a fraction in lowest terms
Quotient(n, d) == [nan |-> FALSE, num |-> n \div GCD(n, d), den |-> d \div GCD(n, d)]

\* bug variant: the sum is divided by the number of live entries
sliding_window_snapshot_vwap_per_entry(w) ==
  IF w.size > 0 THEN Quotient(w.sum_price_volume, w.size) ELSE NaN

\* sliding_window.c:85-95  *out_vwap, computed under w->lock
sliding_window_snapshot_vwap(w) ==
  IF w.sum_volume > 0 THEN Quotient(w.sum_price_volume, w.sum_volume) ELSE NaN

\* vwap_calculator.c:37  the VWAP worker takes a snapshot of the window
snapshot_vwap ==
  /\ vwap_out' = [called |-> TRUE, value |-> sliding_window_snapshot_vwap(win)]
  /\ UNCHANGED <<win, last_add>>
  /\ UNCHANGED <<sigVars, schedVars, queueVars, moreVars>>

NextWindow == add_trade \/ snapshot_vwap

SpecWindow == Init /\ [][NextWindow]_vars

(***************************************************************************)
(* Claims about the sliding window (checked under SpecWindow)              *)
(***************************************************************************)

\* the live entries of a window, oldest first
LiveEntries(w) ==
  [i \in 1..w.size |-> w.buffer[(w.head_idx + i - 1) % WINDOW_CAPACITY]]

RECURSIVE SumPriceVolume(_)
\* the sum of price*size over a sequence of entries
SumPriceVolume(seq) ==
  IF seq = <<>> THEN 0
  ELSE Head(seq).price * Head(seq).size + SumPriceVolume(Tail(seq))

RECURSIVE SumVolume(_)
\* the sum of size over a sequence of entries
SumVolume(seq) ==
  IF seq = <<>> THEN 0 ELSE Head(seq).size + SumVolume(Tail(seq))

\* the entry appended by the last add_trade
Newest(w) == w.buffer[(w.tail_idx + WINDOW_CAPACITY - 1) % WINDOW_CAPACITY]

\* C9: after any sequence of add_trade calls (any timestamps, also out of
\* order, also with capacity evictions) sum_price_volume is the sum of
\* price*size over the live entries and sum_volume the sum of size over them.
C9_SumsMatchLiveEntries ==
  /\ win.sum_price_volume = SumPriceVolume(LiveEntries(win))
  /\ win.sum_volume = SumVolume(LiveEntries(win))

\* C9 witness: the last add_trade evicted the head of a full window whose
\* entries are out of timestamp order
C9_Witness ==
  /\ last_add.evicted
  /\ win.size = WINDOW_CAPACITY
  /\ \E i, j \in 1..win.size :
       i < j /\ LiveEntries(win)[i].trade_ts_ms > LiveEntries(win)[j].trade_ts_ms
  /\ win.sum_price_volume > win.sum_volume

\* C10: after any sequence of add_trade calls, also with timestamps out of
\* order, every live entry satisfies trade_ts_ms >= newest.trade_ts_ms - W,
\* newest being the entry appended by the last add_trade.
C10_LiveEntriesWithinWindow ==
  win.size > 0 =>
    \A i \in 1..win.size :
      LiveEntries(win)[i].trade_ts_ms >= Newest(win).trade_ts_ms - WINDOW_MS

\* the window holds exactly the three trades of the example, scaled to
\* seconds: (t=1, p=100, s=1), (t=2, p=200, s=1), (t=3, p=300, s=2)
ExampleWindow ==
  LiveEntries(win) =
    << [trade_ts_ms |-> 1, price |-> 100, size |-> 1],
       [trade_ts_ms |-> 2, price |-> 200, size |-> 1],
       [trade_ts_ms |-> 3, price |-> 300, size |-> 2] >>

\* C11: sliding_window_snapshot_vwap returns sum_pv / sum_v when sum_v > 0
\* and NaN otherwise, and leaves every field of the window unchanged; after
\* the trades (100, 1), (200, 1), (300, 2) it returns 225.
C11_SnapshotVwap ==
  [][snapshot_vwap =>
       /\ win' = win
       /\ win.sum_volume > 0 =>
            /\ ~vwap_out'.value.nan
            /\ vwap_out'.value.num * win.sum_volume
                 = win.sum_price_volume * vwap_out'.value.den
       /\ ~(win.sum_volume > 0) => vwap_out'.value.nan
       /\ ExampleWindow => vwap_out'.value = [nan |-> FALSE, num |-> 225, den |-> 1]
    ]_vars

\* C11 witness: a snapshot of the example window has been taken and has
\* returned 225
C11_Witness ==
  /\ ExampleWindow
  /\ vwap_out.called
  /\ vwap_out.value = [nan |-> FALSE, num |-> 225, den |-> 1]


(***************************************************************************)
(* One symbol's window shared by the trade processor (add_trade) and the   *)
(* VWAP worker (snapshot_vwap), statement by statement; both hold w->lock  *)
(* from their first to their last statement.                               *)
(***************************************************************************)

\* number of add_trade calls of a run
MaxAdds == 5

\* <<ts_ms, price, size>> of the trades fed to the step-wise add_trade
SnapTrades == {<<0, 100, 1>>, <<0, 200, 1>>, <<MaxTs, 300, 2>>}

SnapFrame ==
  UNCHANGED <<sigVars, schedVars, queueVars, last_add, histVars, timerVars, corrVars,
              logVars, procVars, wsVars, lockVars>>

\* add_trade calls that have returned
n_returned == Len(committed) - 1

AddGoto(next) ==
  /\ add_pc' = next
  /\ UNCHANGED <<win, vwap_out, w_lock, add_arg, snap_pc, committed, n_at_release>>
  /\ SnapFrame

\* a window statement of add_trade: the window becomes w and the call moves on
AddStep(w, next) ==
  /\ win' = w
  /\ add_pc' = next
  /\ UNCHANGED <<vwap_out, w_lock, add_arg, snap_pc, committed, n_at_release>>
  /\ SnapFrame

\* main.c:132  the trade processor calls sliding_window_add_trade
add_trade_call ==
  /\ add_pc = "idle"
  /\ n_returned < MaxAdds
  /\ \E t \in SnapTrades :
       add_arg' = [ts_ms |-> t[1], price |-> t[2], size |-> t[3]]
  /\ add_pc' = "a_lock"
  /\ UNCHANGED <<win, vwap_out, w_lock, snap_pc, committed, n_at_release>>
  /\ SnapFrame

\* sliding_window.c:44  pthread_mutex_lock(&w->lock)
add_trade_lock ==
  /\ add_pc = "a_lock"
  /\ w_lock = NoThread
  /\ w_lock' = "tp"
  /\ add_pc' = "a_prune"
  /\ UNCHANGED <<win, vwap_out, add_arg, snap_pc, committed, n_at_release>>
  /\ SnapFrame

\* sliding_window.c:47-48  the test of the prune loop
add_trade_prune_test ==
  /\ add_pc = "a_prune"
  /\ AddGoto(IF win.size > 0
                /\ win.buffer[win.head_idx].trade_ts_ms < add_arg.ts_ms - WINDOW_MS
             THEN "p_pv" ELSE "a_full")

\* sliding_window.c:57  if (w->size == w->capacity)
add_trade_full_test ==
  /\ add_pc = "a_full"
  /\ AddGoto(IF win.size = WINDOW_CAPACITY THEN "e_pv" ELSE "a_store")

\* sliding_window.c:50 and 60  sum_price_volume -= head.price * head.size
add_trade_remove_pv ==
  /\ add_pc \in {"p_pv", "e_pv"}
  /\ AddStep([win EXCEPT !.sum_price_volume =
                @ - win.buffer[win.head_idx].price * win.buffer[win.head_idx].size],
             IF add_pc = "p_pv" THEN "p_v" ELSE "e_v")

\* sliding_window.c:51 and 61  sum_volume -= head.size
add_trade_remove_v ==
  /\ add_pc \in {"p_v", "e_v"}
  /\ AddStep([win EXCEPT !.sum_volume = @ - win.buffer[win.head_idx].size],
             IF add_pc = "p_v" THEN "p_idx" ELSE "e_idx")

\* sliding_window.c:52-53 and 62-63  head_idx advances, size--
add_trade_remove_idx ==
  /\ add_pc \in {"p_idx", "e_idx"}
  /\ AddStep([win EXCEPT !.head_idx = (win.head_idx + 1) % WINDOW_CAPACITY,
                         !.size = @ - 1],
             IF add_pc = "p_idx" THEN "a_prune" ELSE "a_store")

\* sliding_window.c:67-71  the entry is stored at tail_idx, size++
add_trade_store ==
  /\ add_pc = "a_store"
  /\ AddStep([win EXCEPT !.buffer[win.tail_idx] =
                           [trade_ts_ms |-> add_arg.ts_ms, price |-> add_arg.price,
                            size |-> add_arg.size],
                         !.tail_idx = (win.tail_idx + 1) % WINDOW_CAPACITY,
                         !.size = @ + 1],
             "a_pv")

\* sliding_window.c:74  sum_price_volume += price * size
add_trade_add_pv ==
  /\ add_pc = "a_pv"
  /\ AddStep([win EXCEPT !.sum_price_volume = @ + add_arg.price * add_arg.size], "a_v")

\* sliding_window.c:75  sum_volume += size
add_trade_add_v ==
  /\ add_pc = "a_v"
  /\ AddStep([win EXCEPT !.sum_volume = @ + add_arg.size], "a_unlock")

\* sliding_window.c:77-78  pthread_mutex_unlock(&w->lock); return
add_trade_unlock ==
  /\ add_pc = "a_unlock"
  /\ w_lock' = NoThread
  /\ add_pc' = "idle"
  /\ committed' = Append(committed,
       sliding_window_add_trade(committed[Len(committed)],
                                add_arg.ts_ms, add_arg.price, add_arg.size))
  /\ UNCHANGED <<win, vwap_out, add_arg, snap_pc, n_at_release>>
  /\ SnapFrame

\* scheduler.c:96 and vwap_calculator.c:25  compute_start releases the worker
compute_start_release ==
  /\ snap_pc = "parked"
  /\ snap_pc' = "sn_lock"
  /\ n_at_release' = n_returned
  /\ vwap_out' = NoSnapshot
  /\ UNCHANGED <<win, w_lock, add_pc, add_arg, committed>>
  /\ SnapFrame

\* bug variant: the snapshot proceeds without waiting for w->lock
snapshot_vwap_lock_not_waited ==
  /\ snap_pc = "sn_lock"
  /\ snap_pc' = "sn_read"
  /\ UNCHANGED <<win, vwap_out, w_lock, add_pc, add_arg, committed, n_at_release>>
  /\ SnapFrame

\* sliding_window.c:87  pthread_mutex_lock(&w->lock)
snapshot_vwap_lock ==
  /\ snap_pc = "sn_lock"
  /\ w_lock = NoThread
  /\ w_lock' = "vwap"
  /\ snap_pc' = "sn_read"
  /\ UNCHANGED <<win, vwap_out, add_pc, add_arg, committed, n_at_release>>
  /\ SnapFrame

\* sliding_window.c:89-92  *out_vwap = sum_price_volume / sum_volume, or NAN
snapshot_vwap_read ==
  /\ snap_pc = "sn_read"
  /\ vwap_out' = [called |-> TRUE, value |-> sliding_window_snapshot_vwap(win)]
  /\ snap_pc' = "sn_unlock"
  /\ UNCHANGED <<win, w_lock, add_pc, add_arg, committed, n_at_release>>
  /\ SnapFrame

\* sliding_window.c:94  pthread_mutex_unlock(&w->lock); the worker goes on
\* to the history and, after compute_done, parks on compute_start again
snapshot_vwap_unlock ==
  /\ snap_pc = "sn_unlock"
  /\ w_lock' = IF w_lock = "vwap" THEN NoThread ELSE w_lock
  /\ snap_pc' = "parked"
  /\ UNCHANGED <<win, vwap_out, add_pc, add_arg, committed, n_at_release>>
  /\ SnapFrame

NextSnap ==
  \/ add_trade_call
  \/ add_trade_lock
  \/ add_trade_prune_test
  \/ add_trade_full_test
  \/ add_trade_remove_pv
  \/ add_trade_remove_v
  \/ add_trade_remove_idx
  \/ add_trade_store
  \/ add_trade_add_pv
  \/ add_trade_add_v
  \/ add_trade_unlock
  \/ compute_start_release
  \/ snapshot_vwap_lock
  \/ snapshot_vwap_read
  \/ snapshot_vwap_unlock

SpecSnap == Init /\ [][NextSnap]_vars

\* C12: the VWAP recorded for a symbol in a tick equals sum_pv/sum_v of the
\* window as it is after some whole number k of completed add_trade calls,
\* never of a window in which one add_trade is partly applied, and k counts
\* every add_trade that returned before compute_start was released.
C12_SnapshotAtomic ==
  snap_pc \in {"sn_unlock", "parked"} /\ vwap_out.called =>
    \E k \in n_at_release..n_returned :
      vwap_out.value = sliding_window_snapshot_vwap(committed[k + 1])

\* C12 witness: a snapshot has been read while an add_trade call waits for
\* the lock, after an add_trade that evicted returned between the release
\* of compute_start and the snapshot
C12_Witness ==
  /\ snap_pc = "sn_unlock"
  /\ add_pc = "a_lock"
  /\ n_at_release < n_returned
  /\ win.size = WINDOW_CAPACITY
  /\ n_returned > WINDOW_CAPACITY
  /\ ~vwap_out.value.nan


(***************************************************************************)
(* VWAP history ring, vwap_history.c, and the lagged correlation search,   *)
(* correlation.c:20-114.  A VWAP is an exact fraction or NaN; a            *)
(* correlation is kept as numerator / sqrt(den2), so that comparisons of   *)
(* absolute values are exact.                                              *)
(***************************************************************************)

\* number of vwap_history_append calls of a run
MaxAppends == 8

\* the VWAP values appended to the history
VwapInputs == {Quotient(1, 1), Quotient(2, 1)}

\* the source vectors handed to the lagged search: those starting with 1
SrcVectors == {v \in [1..MOVING_AVG_POINTS -> VwapInputs] : v[1] = Quotient(1, 1)}

\* the content of an output buffer before the call that fills it
StalePoint == Point(0 - 1, NaN)

HistFrame ==
  UNCHANGED <<sigVars, schedVars, queueVars, winVars, snapVars, timerVars, corrVars,
              logVars, procVars, wsVars, lockVars>>

\* bug variant: a full ring overwrites the slot at tail_idx and keeps head_idx
vwap_history_append_keeps_head(h, minute_ts_ms, vwap) ==
  [h EXCEPT
     !.buffer[h.tail_idx] = Point(minute_ts_ms, vwap),
     !.tail_idx = (h.tail_idx + 1) % VWAP_HISTORY_SIZE_MINUTES,
     !.size = IF h.size = VWAP_HISTORY_SIZE_MINUTES THEN h.size ELSE h.size + 1]

\* vwap_history.c:40-58  under h->lock
vwap_history_append(h, minute_ts_ms, vwap) ==
  LET full == h.size = VWAP_HISTORY_SIZE_MINUTES
  IN [buffer   |-> [h.buffer EXCEPT ![h.tail_idx] = Point(minute_ts_ms, vwap)],
      head_idx |-> IF full THEN (h.head_idx + 1) % VWAP_HISTORY_SIZE_MINUTES
                   ELSE h.head_idx,
      tail_idx |-> (h.tail_idx + 1) % VWAP_HISTORY_SIZE_MINUTES,
      size     |-> (IF full THEN h.size - 1 ELSE h.size) + 1]

\* bug variant: the copy starts at head_idx
vwap_history_get_recent_from_head(h, n, out) ==
  IF h.size < n THEN [ret |-> 0, out |-> out]
  ELSE [ret |-> 1,
        out |-> [i \in 1..Len(out) |->
                   IF i <= n
                   THEN h.buffer[(h.head_idx + i - 1) % VWAP_HISTORY_SIZE_MINUTES]
                   ELSE out[i]]]

\* vwap_history.c:67-88  under h->lock; yields the return value and out
vwap_history_get_recent(h, n, out) ==
  IF h.size < n THEN [ret |-> 0, out |-> out]
  ELSE LET start_idx_from_tail ==
             (h.tail_idx - n + VWAP_HISTORY_SIZE_MINUTES) % VWAP_HISTORY_SIZE_MINUTES
       IN [ret |-> 1,
           out |-> [i \in 1..Len(out) |->
                      IF i <= n
                      THEN h.buffer[(start_idx_from_tail + i - 1)
                                      % VWAP_HISTORY_SIZE_MINUTES]
                      ELSE out[i]]]

RECURSIVE DenProduct(_)
\* the product of the denominators of a vector of fractions
DenProduct(x) == IF x = <<>> THEN 1 ELSE Head(x).den * DenProduct(Tail(x))

\* a vector of fractions scaled to integers by a common positive factor,
\* which leaves the Pearson coefficient unchanged
Scaled(x) ==
  LET d == DenProduct(x)
  IN [i \in 1..Len(x) |-> IF d = 1 THEN x[i].num ELSE x[i].num * (d \div x[i].den)]

RECURSIVE DotTo(_, _, _)
\* sum of x[i] * y[i] over the first n elements
DotTo(x, y, n) == IF n = 0 THEN 0 ELSE x[n] * y[n] + DotTo(x, y, n - 1)

RECURSIVE SumTo(_, _)
\* sum of x[i] over the first n elements
SumTo(x, n) == IF n = 0 THEN 0 ELSE x[n] + SumTo(x, n - 1)

\* correlation.c:20-36  numerator / sqrt(den2), NAN when the denominator is
\* zero or an operand is NAN
pearson_correlation(x, y, n) ==
  IF \E i \in 1..n : x[i].nan \/ y[i].nan THEN NaNCorr
  ELSE LET xs == Scaled(x)
           ys == Scaled(y)
           sum_x == SumTo(xs, n)
           sum_y == SumTo(ys, n)
           numerator == n * DotTo(xs, ys, n) - sum_x * sum_y
           den2 == (n * DotTo(xs, xs, n) - sum_x * sum_x)
                     * (n * DotTo(ys, ys, n) - sum_y * sum_y)
       IN IF den2 = 0 THEN NaNCorr
          ELSE [nan |-> FALSE, num |-> numerator, den2 |-> den2]

\* the sign of c times c squared, cross-multiplied with d's den2
SignedSquare(c, d) == (IF c.num < 0 THEN 0 - c.num * c.num ELSE c.num * c.num) * d.den2

\* bug variant: the signed values are compared
AbsGreater_signed(c, best) == SignedSquare(c, best) > SignedSquare(best, c)

\* correlation.c:94  fabs(corr) > fabs(best_corr_val)
AbsGreater(c, best) == c.num * c.num * best.den2 > best.num * best.num * c.den2

RECURSIVE SearchOffsets_last(_, _, _, _, _, _)
\* correlation.c:77-105  the loop keeping the last correlation that is not NaN
SearchOffsets_last(src_vec, h, window_len, offset, max_search_offset, best) ==
  IF offset > max_search_offset THEN best
  ELSE LET window_start_idx ==
             (h.head_idx + h.size - window_len - offset) % VWAP_HISTORY_SIZE_MINUTES
           target_vec ==
             [i \in 1..window_len |->
                h.buffer[(window_start_idx + i - 1) % VWAP_HISTORY_SIZE_MINUTES].vwap]
           corr == pearson_correlation(src_vec, target_vec, window_len)
           end_idx == (window_start_idx + window_len - 1) % VWAP_HISTORY_SIZE_MINUTES
       IN SearchOffsets_last(src_vec, h, window_len, offset + 1, max_search_offset,
            IF ~corr.nan
            THEN [found_match |-> TRUE, corr |-> corr,
                  ts |-> h.buffer[end_idx].minute_ts_ms]
            ELSE best)

RECURSIVE SearchOffsets(_, _, _, _, _, _)
\* correlation.c:77-105  the loop over the offsets, from `offset` on
SearchOffsets(src_vec, h, window_len, offset, max_search_offset, best) ==
  IF offset > max_search_offset THEN best
  ELSE LET window_start_idx ==
             (h.head_idx + h.size - window_len - offset) % VWAP_HISTORY_SIZE_MINUTES
           target_vec ==
             [i \in 1..window_len |->
                h.buffer[(window_start_idx + i - 1) % VWAP_HISTORY_SIZE_MINUTES].vwap]
           corr == pearson_correlation(src_vec, target_vec, window_len)
           end_idx == (window_start_idx + window_len - 1) % VWAP_HISTORY_SIZE_MINUTES
       IN SearchOffsets(src_vec, h, window_len, offset + 1, max_search_offset,
            IF ~corr.nan /\ (~best.found_match \/ AbsGreater(corr, best.corr))
            THEN [found_match |-> TRUE, corr |-> corr,
                  ts |-> h.buffer[end_idx].minute_ts_ms]
            ELSE best)

\* correlation.c:50-114  under target_hist->lock; yields *out_corr and
\* *out_minute_ts_ms
find_best_lagged_correlation(src_vec, h, window_len, min_offset_min, max_lag_min) ==
  IF h.size < window_len + min_offset_min THEN [corr |-> NaNCorr, ts |-> 0]
  ELSE LET best == SearchOffsets(src_vec, h, window_len, min_offset_min,
                                 Min(max_lag_min, h.size - window_len),
                                 [found_match |-> FALSE, corr |-> ZeroCorr, ts |-> 0])
       IN IF best.found_match THEN [corr |-> best.corr, ts |-> best.ts]
          ELSE [corr |-> NaNCorr, ts |-> 0]

\* vwap_calculator.c:38  a point is appended
hist_append ==
  /\ Len(appended) < MaxAppends
  /\ \E v \in VwapInputs :
       /\ hist' = vwap_history_append(hist, Len(appended) + 1, v)
       /\ appended' = Append(appended, Point(Len(appended) + 1, v))
  /\ call' = [NoCall EXCEPT !.op = "append"]
  /\ HistFrame

\* correlation.c:144  vwap_history_get_recent(h, n, out)
hist_get_recent ==
  /\ \E n \in 0..(VWAP_HISTORY_SIZE_MINUTES + 1) :
       LET r == vwap_history_get_recent(hist, n, [i \in 1..n |-> StalePoint])
       IN call' = [NoCall EXCEPT !.op = "get_recent", !.n = n,
                                 !.ret = r.ret, !.out = r.out]
  /\ UNCHANGED <<hist, appended>>
  /\ HistFrame

\* correlation.c:159-160  find_best_lagged_correlation on the history
hist_find_best ==
  /\ \E src \in SrcVectors, min_offset_min \in {0, MOVING_AVG_POINTS} :
       LET r == find_best_lagged_correlation(src, hist, MOVING_AVG_POINTS,
                                             min_offset_min, MAX_LAG_MINUTES)
       IN call' = [NoCall EXCEPT !.op = "find_best", !.src = src,
                                 !.min_offset_min = min_offset_min,
                                 !.corr = r.corr, !.ts = r.ts]
  /\ UNCHANGED <<hist, appended>>
  /\ HistFrame

NextHist == hist_append \/ hist_get_recent \/ hist_find_best

SpecHist == Init /\ [][NextHist]_vars


(***************************************************************************)
(* Claims about the VWAP history and the lagged search (SpecHist)          *)
(***************************************************************************)

\* the points a history holds, oldest first
Contents(h) ==
  [i \in 1..h.size |-> h.buffer[(h.head_idx + i - 1) % VWAP_HISTORY_SIZE_MINUTES]]

\* the last min(n, H) appended points, in append order
Kept == LastN(appended, Min(Len(appended), VWAP_HISTORY_SIZE_MINUTES))

\* C14: after any sequence of n vwap_history_append calls on a history of
\* capacity H, size <= H and the history holds exactly the last min(n, H)
\* appended points in append order: an append on a full history evicts
\* exactly the oldest point and no other.
C14_HistoryKeepsLastPoints ==
  /\ hist.size <= VWAP_HISTORY_SIZE_MINUTES
  /\ hist.size = Min(Len(appended), VWAP_HISTORY_SIZE_MINUTES)
  /\ Contents(hist) = Kept

\* C14 witness: two appends onto a full history have each evicted the
\* oldest point
C14_Witness ==
  /\ call.op = "append"
  /\ Len(appended) = VWAP_HISTORY_SIZE_MINUTES + 2
  /\ hist.size = VWAP_HISTORY_SIZE_MINUTES
  /\ Contents(hist)[1] = appended[3]

\* C15: vwap_history_get_recent(h, n, out) returns 0 without writing out
\* when size < n; otherwise it returns 1 with out[0..n) equal to the last n
\* appended points in append order, also when the ring has wrapped around;
\* in both cases the history is left unchanged.
C15_GetRecent ==
  [][hist_get_recent =>
       /\ hist' = hist
       /\ (hist.size < call'.n) =>
            (call'.ret = 0 /\ call'.out = [i \in 1..call'.n |-> StalePoint])
       /\ (hist.size >= call'.n) =>
            (call'.ret = 1 /\ call'.out = LastN(appended, call'.n))
    ]_vars

\* C15 witness: get_recent returned 1 for points that straddle the end of
\* the ring
C15_Witness ==
  /\ call.op = "get_recent"
  /\ call.ret = 1
  /\ call.n >= 2
  /\ Len(appended) > VWAP_HISTORY_SIZE_MINUTES
  /\ 0 < hist.tail_idx
  /\ hist.tail_idx < call.n
  /\ call.out = LastN(appended, call.n)

\* the offsets the search has to evaluate on the kept points
Offsets(min_offset_min) ==
  IF Len(Kept) < MOVING_AVG_POINTS + min_offset_min THEN {}
  ELSE min_offset_min..Min(Len(Kept) - MOVING_AVG_POINTS, MAX_LAG_MINUTES)

\* the window of offset k: the P consecutive kept points ending k points
\* before the newest one
WindowAt(k) ==
  SubSeq(Kept, Len(Kept) - k - MOVING_AVG_POINTS + 1, Len(Kept) - k)

\* the correlation of a source vector with the window of offset k
CorrAt(src, k) ==
  pearson_correlation(src, [i \in 1..MOVING_AVG_POINTS |-> WindowAt(k)[i].vwap],
                      MOVING_AVG_POINTS)

\* |c| < |d| for two correlations that are not NaN
AbsLess(c, d) == c.num * c.num * d.den2 < d.num * d.num * c.den2

\* the offsets with a correlation that is not NaN
Candidates(src, min_offset_min) ==
  {k \in Offsets(min_offset_min) : ~CorrAt(src, k).nan}

\* the candidate of largest |correlation|, the smallest offset winning ties
IsBestOffset(src, min_offset_min, k) ==
  /\ k \in Candidates(src, min_offset_min)
  /\ \A k2 \in Candidates(src, min_offset_min) :
       /\ ~AbsLess(CorrAt(src, k), CorrAt(src, k2))
       /\ k2 < k => AbsLess(CorrAt(src, k2), CorrAt(src, k))

\* C16: find_best_lagged_correlation returns NaN when the target's size is
\* below P + min_off; otherwise it evaluates exactly the offsets
\* min_off .. min(size - P, MAX_LAG), the window of offset k being the P
\* consecutive entries ending k entries before the newest one (a full
\* history offers every offset up to MAX_LAG), and returns the non-NaN
\* correlation of largest absolute value, the smallest offset winning ties,
\* with the minute_ts_ms of the last entry of that window; it returns NaN
\* when every candidate is NaN.
C16_BestLaggedCorrelation ==
  call.op = "find_best" =>
    /\ Len(Kept) = VWAP_HISTORY_SIZE_MINUTES =>
         Offsets(call.min_offset_min) = call.min_offset_min..MAX_LAG_MINUTES
    /\ Candidates(call.src, call.min_offset_min) = {} =>
         (call.corr.nan /\ call.ts = 0)
    /\ Candidates(call.src, call.min_offset_min) # {} =>
         \E k \in Candidates(call.src, call.min_offset_min) :
           /\ IsBestOffset(call.src, call.min_offset_min, k)
           /\ call.corr = CorrAt(call.src, k)
           /\ call.ts = WindowAt(k)[MOVING_AVG_POINTS].minute_ts_ms

\* C16 witness: on a wrapped history the search returned a negative
\* correlation from an offset that is not the smallest candidate, because
\* its absolute value is larger
C16_Witness ==
  /\ call.op = "find_best"
  /\ Len(appended) > VWAP_HISTORY_SIZE_MINUTES
  /\ ~call.corr.nan
  /\ call.corr.num < 0
  /\ \E k \in Candidates(call.src, call.min_offset_min) :
       /\ call.ts < WindowAt(k)[MOVING_AVG_POINTS].minute_ts_ms
       /\ AbsLess(CorrAt(call.src, k), call.corr)


(***************************************************************************)
(* The scheduler's timing, scheduler.c:27-121.  CLOCK_MONOTONIC advances   *)
(* while the scheduler sleeps and while the workers compute; CLOCK_REALTIME*)
(* is CLOCK_MONOTONIC plus a fixed offset.  No shutdown is requested.      *)
(***************************************************************************)

\* ticks of a run
MaxTimerTicks == 6

\* largest delay between the wake target and the return of clock_nanosleep
MaxLatencyNs == 1

\* a stall of more than two periods
StallNs == 2 * PERIOD_NS + 1

\* time from work_start_ns to work_end_ns in a tick
WorkDurationsNs == {0, 3, StallNs}

TimerFrame ==
  UNCHANGED <<sigVars, queueVars, winVars, snapVars, histVars, corrVars, logVars, procVars, wsVars, lockVars,
              pc, bar_waiting, inbar, now_ms, sym, ncross, work_tick, rows>>

\* time_utils.c:15-20  CLOCK_REALTIME in milliseconds
NowMs == (mono_ns + wall_offset_ns) \div NS_PER_MS

\* bug variant: an if in place of the while
AdvanceScheduled_once(scheduled, now_ns) ==
  IF scheduled <= now_ns THEN scheduled + PERIOD_NS ELSE scheduled

\* scheduler.c:42-43  scheduled_time_ns advanced until it lies after now_ns
RECURSIVE AdvanceScheduled(_, _)
AdvanceScheduled(scheduled, now_ns) ==
  IF scheduled <= now_ns THEN AdvanceScheduled(scheduled + PERIOD_NS, now_ns)
  ELSE scheduled

\* scheduler.c:46  llround of a fraction that is not negative
LLRound(q) == (2 * q.num + q.den) \div (2 * q.den)

\* a fraction in lowest terms
Fraction(n, d) == [num |-> n \div GCD(n, d), den |-> d \div GCD(n, d)]

\* bug variant: the upper clamp is left out
EmaUpdate_unclamped(ema, work_duration_ns) ==
  Fraction(work_duration_ns * ema.den + 4 * ema.num, 5 * ema.den)

\* scheduler.c:105-109  ema = 0.2 * duration + 0.8 * ema, clamped to
\* [0, EMA_MAX_NS]; the duration is never negative
EmaUpdate(ema, work_duration_ns) ==
  IF work_duration_ns * ema.den + 4 * ema.num > EMA_MAX_NS * 5 * ema.den
  THEN [num |-> EMA_MAX_NS, den |-> 1]
  ELSE Fraction(work_duration_ns * ema.den + 4 * ema.num, 5 * ema.den)

\* bug variant: the first schedule point is the start time rounded up
timer_align_rounded_up ==
  /\ t_pc = "t_align"
  /\ \E start_ns \in 0..(PERIOD_NS - 1), offset_ns \in 0..(PERIOD_NS - 1) :
       /\ mono_ns' = start_ns
       /\ wall_offset_ns' = offset_ns
       /\ scheduled_time_ns' = ((start_ns + PERIOD_NS - 1) \div PERIOD_NS) * PERIOD_NS
  /\ t_pc' = "t_top"
  /\ UNCHANGED <<target_wakeup_ns, work_start_ns, ema_duration_ns,
                 current_minute_ms, tick_stamp, tick_scheduled>>
  /\ TimerFrame

\* scheduler.c:34-35  the first schedule point is the next multiple of the
\* period on the monotonic clock; the thread starts at any phase of it
timer_align ==
  /\ t_pc = "t_align"
  /\ \E start_ns \in 0..(PERIOD_NS - 1), offset_ns \in 0..(PERIOD_NS - 1) :
       /\ mono_ns' = start_ns
       /\ wall_offset_ns' = offset_ns
       /\ scheduled_time_ns' = ((start_ns \div PERIOD_NS) + 1) * PERIOD_NS
  /\ t_pc' = "t_top"
  /\ UNCHANGED <<target_wakeup_ns, work_start_ns, ema_duration_ns,
                 current_minute_ms, tick_stamp, tick_scheduled>>
  /\ TimerFrame

\* scheduler.c:37-61  the schedule catches up with now and the wake target
\* is scheduled_time_ns minus the predicted duration, or now if that is past
timer_loop_top ==
  /\ t_pc = "t_top"
  /\ ~shutdown_requested
  /\ Len(tick_stamp) < MaxTimerTicks
  /\ LET scheduled == AdvanceScheduled(scheduled_time_ns, mono_ns)
         target == scheduled - LLRound(ema_duration_ns)
     IN /\ scheduled_time_ns' = scheduled
        /\ target_wakeup_ns' = IF target <= mono_ns THEN mono_ns ELSE target
  /\ t_pc' = "t_sleep"
  /\ UNCHANGED <<mono_ns, wall_offset_ns, work_start_ns, ema_duration_ns,
                 current_minute_ms, tick_stamp, tick_scheduled>>
  /\ TimerFrame

\* scheduler.c:64-87  clock_nanosleep(TIMER_ABSTIME) returns 0 at the target
\* or up to MaxLatencyNs after it
timer_sleep ==
  /\ t_pc = "t_sleep"
  /\ ~shutdown_requested
  /\ \E latency_ns \in 0..MaxLatencyNs :
       mono_ns' = target_wakeup_ns + latency_ns
  /\ t_pc' = "t_stamp"
  /\ UNCHANGED <<wall_offset_ns, scheduled_time_ns, target_wakeup_ns, work_start_ns,
                 ema_duration_ns, current_minute_ms, tick_stamp, tick_scheduled>>
  /\ TimerFrame

\* scheduler.c:90-93  the minute stamp from CLOCK_REALTIME; work_start_ns
timer_stamp ==
  /\ t_pc = "t_stamp"
  /\ current_minute_ms' = MinuteFloor(NowMs)
  /\ tick_stamp' = Append(tick_stamp, MinuteFloor(NowMs))
  /\ work_start_ns' = mono_ns
  /\ tick_scheduled' = Append(tick_scheduled, scheduled_time_ns)
  /\ t_pc' = "t_work"
  /\ UNCHANGED <<mono_ns, wall_offset_ns, scheduled_time_ns, target_wakeup_ns,
                 ema_duration_ns>>
  /\ TimerFrame

\* scheduler.c:96-99  both barriers: the workers compute for some time
timer_work ==
  /\ t_pc = "t_work"
  /\ \E d \in WorkDurationsNs : mono_ns' = mono_ns + d
  /\ t_pc' = "t_ema"
  /\ UNCHANGED <<wall_offset_ns, scheduled_time_ns, target_wakeup_ns, work_start_ns,
                 ema_duration_ns, current_minute_ms, tick_stamp, tick_scheduled>>
  /\ TimerFrame

\* scheduler.c:101-121  the EMA update and scheduled_time_ns += PERIOD_NS
timer_ema_update ==
  /\ t_pc = "t_ema"
  /\ ema_duration_ns' = EmaUpdate(ema_duration_ns, mono_ns - work_start_ns)
  /\ scheduled_time_ns' = scheduled_time_ns + PERIOD_NS
  /\ t_pc' = "t_top"
  /\ UNCHANGED <<mono_ns, wall_offset_ns, target_wakeup_ns, work_start_ns,
                 current_minute_ms, tick_stamp, tick_scheduled>>
  /\ TimerFrame

NextTimer ==
  \/ timer_align
  \/ timer_loop_top
  \/ timer_sleep
  \/ timer_stamp
  \/ timer_work
  \/ timer_ema_update

SpecTimer == Init /\ [][NextTimer]_vars

\* C13: the minute stamps the scheduler writes on successive ticks are
\* strictly increasing (so a symbol's history holds at most one entry per
\* minute, in chronological order), for every wake-up time the wake target
\* scheduled_time_ns - ema permits and every offset between the monotonic
\* schedule and the wall-clock minute boundaries.
C13_StampsStrictlyIncreasing ==
  \A i, j \in 1..Len(tick_stamp) : i < j => tick_stamp[i] < tick_stamp[j]

\* C22: when the wake target is computed, scheduled_time_ns lies after now;
\* the boundaries skipped by a stall produce no tick, every tick is released
\* for the schedule point the scheduler holds, and the schedule points of
\* successive ticks strictly increase (so no boundary releases the workers
\* twice).
C22_CatchUpWithoutBurst ==
  /\ t_pc = "t_sleep" => scheduled_time_ns > mono_ns
  /\ t_pc \in {"t_work", "t_ema"} =>
       tick_scheduled[Len(tick_scheduled)] = scheduled_time_ns
  /\ (t_pc \in {"t_sleep", "t_stamp"} /\ tick_scheduled # <<>>) =>
       tick_scheduled[Len(tick_scheduled)] < scheduled_time_ns
  /\ \A k \in 1..(Len(tick_scheduled) - 1) : tick_scheduled[k] < tick_scheduled[k + 1]

\* C22 witness: after a stall the schedule has skipped two boundaries
C22_Witness ==
  /\ t_pc = "t_sleep"
  /\ tick_scheduled # <<>>
  /\ scheduled_time_ns >= tick_scheduled[Len(tick_scheduled)] + 3 * PERIOD_NS
  /\ mono_ns >= scheduled_time_ns - PERIOD_NS

\* the scheduler has aligned its schedule and not yet entered its loop
JustAligned == t_pc = "t_top" /\ tick_stamp = <<>>

\* C23 as stated: at start scheduled_time_ns is the smallest multiple of
\* the period that is at or after the monotonic time read at start, exact
\* multiples included; later it is still a multiple of the period.
C23_SmallestMultipleAtOrAfterStart ==
  /\ scheduled_time_ns % PERIOD_NS = 0
  /\ JustAligned =>
       /\ scheduled_time_ns >= mono_ns
       /\ scheduled_time_ns - PERIOD_NS < mono_ns

\* C23 amended: at start scheduled_time_ns is the smallest multiple of the
\* period strictly after the monotonic time read at start (a start at an
\* exact multiple is scheduled one period later); in every later state
\* scheduled_time_ns is still a multiple of the period.
C23_SmallestMultipleAfterStart ==
  /\ scheduled_time_ns % PERIOD_NS = 0
  /\ JustAligned =>
       /\ scheduled_time_ns > mono_ns
       /\ scheduled_time_ns - PERIOD_NS <= mono_ns

\* C23 witness: the scheduler started at an exact multiple of the period
C23_Witness ==
  /\ JustAligned
  /\ mono_ns % PERIOD_NS = 0
  /\ scheduled_time_ns = mono_ns + PERIOD_NS

\* the wake target is scheduled_time_ns minus r ns
WakesEarlyBy(r) == target_wakeup_ns = scheduled_time_ns - r

\* r is the fraction q rounded to the nearest integer, halves upwards
IsRounded(q, r) ==
  /\ 2 * r * q.den <= 2 * q.num + q.den
  /\ 2 * q.num + q.den < 2 * (r + 1) * q.den

\* the fraction q, in lowest terms, equals n / d
FractionIs(q, n, d) == q.num = n \div GCD(n, d) /\ q.den = d \div GCD(n, d)

\* C24: after every tick the EMA is 0.2 * work_duration + 0.8 * previous EMA
\* clamped to [0, EMA_MAX_NS], so it lies in that range in every state; the
\* wake target is scheduled_time_ns minus the rounded EMA unless that is at
\* or before now, in which case it is now; with an EMA of 0 the wake target
\* is scheduled_time_ns.
C24_EmaClampedAndWakeTarget ==
  /\ [](/\ 0 <= ema_duration_ns.num
        /\ ema_duration_ns.num <= EMA_MAX_NS * ema_duration_ns.den)
  /\ [](t_pc = "t_sleep" =>
          /\ \E r \in 0..EMA_MAX_NS :
               /\ IsRounded(ema_duration_ns, r)
               /\ IF scheduled_time_ns - r <= mono_ns
                  THEN target_wakeup_ns = mono_ns
                  ELSE WakesEarlyBy(r)
          /\ ema_duration_ns.num = 0 => WakesEarlyBy(0))
  /\ [][timer_ema_update =>
          LET d == mono_ns - work_start_ns
              n == d * ema_duration_ns.den + 4 * ema_duration_ns.num
              m == 5 * ema_duration_ns.den
          IN IF n > EMA_MAX_NS * m
             THEN FractionIs(ema_duration_ns', EMA_MAX_NS, 1)
             ELSE FractionIs(ema_duration_ns', n, m)]_vars

\* C24 witness: the EMA was clamped to its maximum and the wake target of
\* the next tick, being past already, became now
C24_Witness ==
  /\ t_pc = "t_sleep"
  /\ FractionIs(ema_duration_ns, EMA_MAX_NS, 1)
  /\ scheduled_time_ns - EMA_MAX_NS <= mono_ns
  /\ target_wakeup_ns = mono_ns


(***************************************************************************)
(* The VWAP worker (vwap_calculator.c:34-40) and the correlation worker    *)
(* (correlation.c:138-184) between compute_start and compute_done.  Every  *)
(* history call is atomic under the history's lock; the two workers        *)
(* interleave call by call.  Here each tick is stamped one minute after    *)
(* the previous one.                                                       *)
(***************************************************************************)

\* ticks of a run
MaxCorrTicks == 6

CorrFrame ==
  UNCHANGED <<sigVars, queueVars, winVars, snapVars, histVars, timerVars, logVars, procVars, wsVars, lockVars,
              pc, bar_waiting, inbar, now_ms, sym, ncross, work_tick, tick_stamp, rows>>

Symbols == 0..(NUM_SYMBOLS - 1)

\* the minute_ts_ms of every ring slot the loop of correlation.c:77-105 reads
EvaluatedTs(h, window_len, min_offset_min, max_lag_min) ==
  IF h.size < window_len + min_offset_min THEN {}
  ELSE {h.buffer[(h.head_idx + h.size - window_len - offset + k)
                   % VWAP_HISTORY_SIZE_MINUTES].minute_ts_ms :
          offset \in min_offset_min..Min(max_lag_min, h.size - window_len),
          k \in 0..(window_len - 1)}

\* scheduler.c:90-99 and the workers' barrier waits: compute_done of the
\* previous tick is crossed, the next minute is stamped and compute_start
\* releases both workers
corr_tick_begin ==
  /\ vw_i = NUM_SYMBOLS
  /\ cw.pc = "c_parked"
  /\ c_ticks < MaxCorrTicks
  /\ c_ticks' = c_ticks + 1
  /\ current_minute_ms' = current_minute_ms + MS_PER_MINUTE
  /\ vw_i' = 0
  /\ cw' = [CorrWorkerParked EXCEPT !.pc = "c_get"]
  /\ row_out' = [i \in Symbols |-> NoRow]
  /\ searched' = [j \in Symbols |-> NotSearched]
  /\ UNCHANGED hists
  /\ CorrFrame

\* vwap_calculator.c:36-39  snapshot of symbol i's window, append to its
\* history, CSV row
vwap_worker_append ==
  /\ vw_i < NUM_SYMBOLS
  /\ \E v \in VwapInputs :
       hists' = [hists EXCEPT ![vw_i] = vwap_history_append(@, current_minute_ms, v)]
  /\ vw_i' = vw_i + 1
  /\ UNCHANGED <<cw, c_ticks, row_out, searched, current_minute_ms>>
  /\ CorrFrame

\* correlation.c:140-152  get_recent on the source symbol; continue when it
\* returns 0
corr_worker_get_recent ==
  /\ cw.pc = "c_get"
  /\ LET r == vwap_history_get_recent(hists[cw.i], MOVING_AVG_POINTS,
                                      [k \in 1..MOVING_AVG_POINTS |-> StalePoint])
     IN cw' = IF r.ret = 0
              THEN [cw EXCEPT !.pc = "c_next", !.got = FALSE]
              ELSE [cw EXCEPT !.pc = "c_search", !.got = TRUE, !.j = 0,
                              !.src_points_buf = r.out, !.found_any = FALSE,
                              !.best_corr = ZeroCorr, !.best_ts = 0, !.best_j = 0 - 1]
  /\ searched' = [j \in Symbols |-> NotSearched]
  /\ UNCHANGED <<hists, vw_i, c_ticks, row_out, current_minute_ms>>
  /\ CorrFrame

\* bug variant: every target that is not NaN replaces the best
BetterTarget_last_wins(c, found_any, best) == ~c.nan

\* correlation.c:168-170  !isnan(c) && (!found_any || fabs(c) > fabs(best))
BetterTarget(c, found_any, best) == ~c.nan /\ (~found_any \/ AbsGreater(c, best))

\* correlation.c:154-178  one target j: the lagged search on its history
\* and the update of the best target
corr_worker_search ==
  /\ cw.pc = "c_search"
  /\ LET j == cw.j
         min_offset_min == IF cw.i = j THEN MOVING_AVG_POINTS ELSE 0
         src_vwap_vec == [k \in 1..MOVING_AVG_POINTS |-> cw.src_points_buf[k].vwap]
         r == find_best_lagged_correlation(src_vwap_vec, hists[j], MOVING_AVG_POINTS,
                                           min_offset_min, MAX_LAG_MINUTES)
         better == BetterTarget(r.corr, cw.found_any, cw.best_corr)
     IN /\ cw' = [cw EXCEPT
                    !.best_corr = IF better THEN r.corr ELSE @,
                    !.best_ts = IF better THEN r.ts ELSE @,
                    !.best_j = IF better THEN j ELSE @,
                    !.found_any = IF better THEN TRUE ELSE @,
                    !.j = j + 1,
                    !.pc = IF j + 1 = NUM_SYMBOLS THEN "c_emit" ELSE "c_search"]
        /\ searched' = [searched EXCEPT ![j] =
                          [done |-> TRUE, corr |-> r.corr, ts |-> r.ts,
                           seen |-> EvaluatedTs(hists[j], MOVING_AVG_POINTS,
                                                min_offset_min, MAX_LAG_MINUTES)]]
  /\ UNCHANGED <<hists, vw_i, c_ticks, row_out, current_minute_ms>>
  /\ CorrFrame

\* correlation.c:180-183  if (found_any) correlation_log_append_csv(...)
corr_worker_emit ==
  /\ cw.pc = "c_emit"
  /\ row_out' = IF cw.found_any
                THEN [row_out EXCEPT ![cw.i] =
                        [emitted |-> @.emitted + 1, minute_ms |-> current_minute_ms,
                         target |-> cw.best_j, corr |-> cw.best_corr,
                         ts |-> cw.best_ts]]
                ELSE row_out
  /\ cw' = [cw EXCEPT !.pc = "c_next"]
  /\ UNCHANGED <<hists, vw_i, c_ticks, searched, current_minute_ms>>
  /\ CorrFrame

\* correlation.c:138 and 186  ++i; after the last symbol the worker waits
\* on compute_done
corr_worker_next_source ==
  /\ cw.pc = "c_next"
  /\ cw' = IF cw.i + 1 = NUM_SYMBOLS THEN CorrWorkerParked
           ELSE [cw EXCEPT !.pc = "c_get", !.i = cw.i + 1, !.got = FALSE]
  /\ UNCHANGED <<hists, vw_i, c_ticks, row_out, searched, current_minute_ms>>
  /\ CorrFrame

NextCorr ==
  \/ corr_tick_begin
  \/ vwap_worker_append
  \/ corr_worker_get_recent
  \/ corr_worker_search
  \/ corr_worker_emit
  \/ corr_worker_next_source

SpecCorr == Init /\ [][NextCorr]_vars


(***************************************************************************)
(* Claims about the two workers within a tick (SpecCorr)                   *)
(***************************************************************************)

\* the minute_ts_ms of the source points get_recent returned
SourceTs == {cw.src_points_buf[k].minute_ts_ms : k \in 1..Len(cw.src_points_buf)}

\* the minute_ts_ms of the P points of the window the search on target j
\* chose: the entries it read that end at the timestamp it returned
ChosenTs(j) ==
  IF searched[j].corr.nan THEN {}
  ELSE {t \in searched[j].seen :
          /\ t <= searched[j].ts
          /\ t > searched[j].ts - MOVING_AVG_POINTS * MS_PER_MINUTE}

\* C17: for a source symbol i, the target window chosen for j == i shares
\* no history entry with the source window get_recent returned in the same
\* tick, also when the VWAP worker appends symbol i's point between the
\* correlation worker's get_recent on i and its lagged search on i.
C17_SelfWindowDisjoint ==
  (cw.got /\ cw.pc \in {"c_search", "c_emit", "c_next"} /\ searched[cw.i].done) =>
    ChosenTs(cw.i) \cap SourceTs = {}

\* the targets whose correlation with the current source is not NaN
NonNaNTargets == {j \in Symbols : searched[j].done /\ ~searched[j].corr.nan}

\* target j has the largest |c_ij|, the lowest j winning ties
IsBestTarget(j) ==
  /\ j \in NonNaNTargets
  /\ \A j2 \in NonNaNTargets :
       /\ ~AbsLess(searched[j].corr, searched[j2].corr)
       /\ j2 < j => AbsLess(searched[j2].corr, searched[j].corr)

\* C19: in each tick, for each source symbol i whose history has at least P
\* points when read, the correlation worker emits exactly one row naming the
\* target j* with the largest |c_ij| among the targets whose c_ij is not NaN
\* (the lowest j winning ties), carrying that target's correlation, that
\* target's end timestamp and the tick's current_minute_ms; it emits no row
\* for i when every c_ij is NaN or when i has fewer than P points.
C19_OneRowForBestTarget ==
  cw.pc = "c_next" =>
    /\ ~cw.got => row_out[cw.i].emitted = 0
    /\ (cw.got /\ NonNaNTargets = {}) => row_out[cw.i].emitted = 0
    /\ (cw.got /\ NonNaNTargets # {}) =>
         /\ row_out[cw.i].emitted = 1
         /\ IsBestTarget(row_out[cw.i].target)
         /\ row_out[cw.i].corr = searched[row_out[cw.i].target].corr
         /\ row_out[cw.i].ts = searched[row_out[cw.i].target].ts
         /\ row_out[cw.i].minute_ms = current_minute_ms

\* C19 witness: a row was emitted for source 0 naming target 1, whose
\* correlation is larger in absolute value than the one of target 0, which
\* is not NaN either
C19_Witness ==
  /\ cw.pc = "c_next"
  /\ cw.i = 0
  /\ row_out[0].emitted = 1
  /\ row_out[0].target = 1
  /\ ~searched[0].corr.nan
  /\ AbsLess(searched[0].corr, searched[1].corr)


(***************************************************************************)
(* The scheduler's timing together with what the two workers do between    *)
(* compute_start and compute_done, under the schedule in which the VWAP    *)
(* worker has appended every symbol's point before the correlation worker  *)
(* reads the histories.                                                    *)
(***************************************************************************)

\* the snapshots of a tick, one VWAP per symbol: the symbols trade at the
\* same price, which goes up in one minute and down in the next
TickVwaps(tick) == [s \in Symbols |-> Quotient(1 + (tick % 2), 1)]

\* correlation.c:149-152  the locals before the loop over the targets
NoBest == [found_any |-> FALSE, best_corr |-> ZeroCorr, best_ts |-> 0, best_j |-> 0 - 1]

\* correlation.c:154-178  the loop over the targets j, j + 1, ... for source i
RECURSIVE BestTarget(_, _, _, _, _)
BestTarget(hs, i, src_vwap_vec, j, best) ==
  IF j = NUM_SYMBOLS THEN best
  ELSE LET min_offset_min == IF i = j THEN MOVING_AVG_POINTS ELSE 0
           r == find_best_lagged_correlation(src_vwap_vec, hs[j], MOVING_AVG_POINTS,
                                             min_offset_min, MAX_LAG_MINUTES)
       IN BestTarget(hs, i, src_vwap_vec, j + 1,
                     IF BetterTarget(r.corr, best.found_any, best.best_corr)
                     THEN [found_any |-> TRUE, best_corr |-> r.corr,
                           best_ts |-> r.ts, best_j |-> j]
                     ELSE best)

\* correlation.c:140-178  one source symbol: get_recent, then the targets
SourceBest(hs, i) ==
  LET r == vwap_history_get_recent(hs[i], MOVING_AVG_POINTS,
                                   [k \in 1..MOVING_AVG_POINTS |-> StalePoint])
  IN IF r.ret = 0 THEN NoBest
     ELSE BestTarget(hs, i, [k \in 1..MOVING_AVG_POINTS |-> r.out[k].vwap], 0, NoBest)

\* correlation.c:138-184  the rows one pass over the source symbols appends
\* to the correlation log
CorrelationRows(hs, minute_ms, tick) ==
  UNION {LET best == SourceBest(hs, i)
         IN IF best.found_any
            THEN {[tick |-> tick, minute_ms |-> minute_ms, source |-> i,
                   target |-> best.best_j, corr |-> best.best_corr,
                   ts |-> best.best_ts]}
            ELSE {} : i \in Symbols}

\* scheduler.c:96-99  both barriers: the VWAP worker appends every symbol's
\* point with the tick's stamp (vwap_calculator.c:34-39), the correlation
\* worker makes its pass, and the work takes some time
tick_work ==
  /\ t_pc = "t_work"
  /\ \E d \in WorkDurationsNs : mono_ns' = mono_ns + d
  /\ LET v == TickVwaps(Len(tick_stamp))
         hs == [s \in Symbols |->
                  vwap_history_append(hists[s], current_minute_ms, v[s])]
     IN /\ hists' = hs
        /\ corr_log' = corr_log \cup
                         CorrelationRows(hs, current_minute_ms, Len(tick_stamp))
  /\ t_pc' = "t_ema"
  /\ UNCHANGED <<wall_offset_ns, scheduled_time_ns, target_wakeup_ns, work_start_ns,
                 ema_duration_ns, current_minute_ms, tick_stamp, tick_scheduled>>
  /\ UNCHANGED <<vw_i, cw, c_ticks, row_out, searched>>
  /\ UNCHANGED <<sigVars, queueVars, winVars, snapVars, histVars, procVars, wsVars, lockVars,
                 pc, bar_waiting, inbar, now_ms, sym, ncross, work_tick, rows>>

NextTick ==
  \/ timer_align
  \/ timer_loop_top
  \/ timer_sleep
  \/ timer_stamp
  \/ tick_work
  \/ timer_ema_update

SpecTick == Init /\ [][NextTick]_vars

\* C18: every correlation row emitted for a source symbol whose chosen
\* target is the source itself carries a lag timestamp (the minute_ts_ms of
\* the last point of the chosen target window) that is at most
\* current_minute_ms minus P minutes.
C18_SelfLagAtLeastP ==
  \A r \in corr_log :
    r.target = r.source => r.ts <= r.minute_ms - MOVING_AVG_POINTS * MS_PER_MINUTE

\* C20: for every symbol the correlation log holds at most one row per
\* minute timestamp: at most one row per source symbol per tick, and no two
\* ticks emit rows carrying the same current_minute_ms.
C20_OneRowPerMinute ==
  \A r1, r2 \in corr_log :
    (r1.source = r2.source /\ r1.minute_ms = r2.minute_ms) => r1 = r2


(***************************************************************************)
(* pearson_correlation in floating-point arithmetic, correlation.c:20-36.  *)
(* A double is a significand of SignificandBits bits times a power of two; *)
(* every addition, subtraction and multiplication is rounded to the        *)
(* nearest double, ties to the even significand.  The values are integers, *)
(* so no exponent underflows.                                              *)
(***************************************************************************)

\* bits of the significand of a double (53 in the program)
SignificandBits == 4

\* the VWAPs of a source window, and of a target window
SourceDoubles == {6, 7}
TargetDoubles == {1, 2, 3}

RECURSIVE BitLength(_)
BitLength(a) == IF a = 0 THEN 0 ELSE 1 + BitLength(a \div 2)

Abs(z) == IF z < 0 THEN 0 - z ELSE z

\* the double nearest to the integer z, ties to even
RoundDouble(z) ==
  IF BitLength(Abs(z)) <= SignificandBits THEN z
  ELSE LET shift == BitLength(Abs(z)) - SignificandBits
           q == Abs(z) \div (2 ^ shift)
           r == Abs(z) % (2 ^ shift)
           half == 2 ^ (shift - 1)
           up == r > half \/ (r = half /\ q % 2 = 1)
           m == (IF up THEN q + 1 ELSE q) * (2 ^ shift)
       IN IF z < 0 THEN 0 - m ELSE m

\* correlation.c:22-30  the five sums after the first i iterations
RECURSIVE PearsonSums(_, _, _)
PearsonSums(x, y, i) ==
  IF i = 0
  THEN [sum_x |-> 0, sum_y |-> 0, sum_xx |-> 0, sum_yy |-> 0, sum_xy |-> 0]
  ELSE LET s == PearsonSums(x, y, i - 1)
       IN [sum_x  |-> RoundDouble(s.sum_x + x[i]),
           sum_y  |-> RoundDouble(s.sum_y + y[i]),
           sum_xx |-> RoundDouble(s.sum_xx + RoundDouble(x[i] * x[i])),
           sum_yy |-> RoundDouble(s.sum_yy + RoundDouble(y[i] * y[i])),
           sum_xy |-> RoundDouble(s.sum_xy + RoundDouble(x[i] * y[i]))]

\* correlation.c:20-36  the result is NaN when the product under the square
\* root is 0 (denominator == 0) or negative (sqrt yields NaN and so does the
\* division); otherwise it is numerator / sqrt(den2)
pearson_correlation_double(x, y, n) ==
  LET s == PearsonSums(x, y, n)
      numerator == RoundDouble(RoundDouble(n * s.sum_xy)
                               - RoundDouble(s.sum_x * s.sum_y))
      var_x == RoundDouble(RoundDouble(n * s.sum_xx) - RoundDouble(s.sum_x * s.sum_x))
      var_y == RoundDouble(RoundDouble(n * s.sum_yy) - RoundDouble(s.sum_y * s.sum_y))
      den2 == RoundDouble(var_x * var_y)
  IN IF den2 <= 0 THEN NaNCorr
     ELSE [nan |-> FALSE, num |-> numerator, den2 |-> den2]

\* correlation.c:90  pearson_correlation(src_vec, target_vec, window_len)
pearson_call ==
  /\ \E x \in [1..MOVING_AVG_POINTS -> SourceDoubles],
        y \in [1..MOVING_AVG_POINTS -> TargetDoubles] :
       call' = [NoCall EXCEPT !.op = "pearson_correlation", !.n = MOVING_AVG_POINTS,
                              !.src = x, !.out = y,
                              !.corr = pearson_correlation_double(x, y, MOVING_AVG_POINTS)]
  /\ UNCHANGED <<hist, appended>>
  /\ HistFrame

\* correlation.c:20-36  pearson_correlation(x, y, n) and, with the arguments
\* exchanged, pearson_correlation(y, x, n)
pearson_pair_call ==
  /\ \E x \in [1..MOVING_AVG_POINTS -> SourceDoubles],
        y \in [1..MOVING_AVG_POINTS -> SourceDoubles] :
       call' = [op |-> "pearson_pair", n |-> MOVING_AVG_POINTS, src |-> x, out |-> y,
                corr |-> pearson_correlation_double(x, y, MOVING_AVG_POINTS),
                swapped |-> pearson_correlation_double(y, x, MOVING_AVG_POINTS)]
  /\ UNCHANGED <<hist, appended>>
  /\ HistFrame

NextDouble == pearson_call \/ pearson_pair_call

SpecDouble == Init /\ [][NextDouble]_vars

\* C21: when the source vector of the last P VWAPs is constant,
\* pearson_correlation returns NaN for every target window (so that the
\* lagged search returns NaN for every target and no row is emitted for the
\* source).
C21_ConstantSourceIsNaN ==
  (/\ call.op = "pearson_correlation"
   /\ \A k \in 1..Len(call.src) : call.src[k] = call.src[1]) => call.corr.nan

\* the result of pearson_correlation is 1: the numerator is positive and
\* equals the square root of the rounded product under the root
IsOne(c) == ~c.nan /\ c.num > 0 /\ RoundDouble(c.num * c.num) = c.den2

\* C32: pearson_correlation(x, y) and pearson_correlation(y, x) are equal
\* (both NaN or the same value) for all x, y of equal length, and
\* pearson_correlation(x, x) is 1 for every x that is not constant.
C32_PearsonSymmetricAndSelfOne ==
  call.op = "pearson_pair" =>
    /\ call.corr = call.swapped
    /\ (call.src = call.out /\ \E k \in 1..Len(call.src) : call.src[k] # call.src[1])
         => IsOne(call.corr)

\* the first half of C32 alone: the result does not depend on the order of
\* the two vectors
PearsonSymmetric == call.op = "pearson_pair" => call.corr = call.swapped


(***************************************************************************)
(* The trade processor after a pop: parse, log, add to the window           *)
(* (main.c:107-136, okx_parser.c:94-197, logger.c:46-74 and 137-168)        *)
(***************************************************************************)

\* number of messages the trade processor dequeues in a run
MaxDequeued == 2

\* config.h:17-21  the instrument names, in the order of their symbol index
SYMBOLS ==
  <<"BTC-USDT", "ADA-USDT", "ETH-USDT", "DOGE-USDT",
    "XRP-USDT", "SOL-USDT", "LTC-USDT", "BNB-USDT">>

\* the text of a JSON string field: a decimal number, some other text, or no
\* such key in the trade object
JsonNumber(v) == [kind |-> "number", value |-> v]
JsonText      == [kind |-> "text", value |-> 0]
JsonMissing   == [kind |-> "missing", value |-> 0]

\* common.h raw_json  a received frame: whether it has a "data" array with a
\* trade object, and the instId, px, sz and ts fields of that object
RawJson(has_data, inst_id, px, sz, ts) ==
  [data |-> has_data, instId |-> inst_id, px |-> px, sz |-> sz, ts |-> ts]

\* websocket.c:78-88  the frames the websocket thread queues: trades of two
\* instruments, a frame without "data", an unknown instrument, a zero price,
\* a size that is not a number, and a trade without ts
ProcMessages ==
  { RawJson(TRUE, "BTC-USDT", JsonNumber(100), JsonNumber(1), JsonNumber(1)),
    RawJson(TRUE, "ADA-USDT", JsonNumber(200), JsonNumber(1), JsonNumber(3)),
    RawJson(FALSE, "", JsonMissing, JsonMissing, JsonMissing),
    RawJson(TRUE, "PEPE-USDT", JsonNumber(100), JsonNumber(1), JsonNumber(2)),
    RawJson(TRUE, "BTC-USDT", JsonNumber(0), JsonNumber(1), JsonNumber(2)),
    RawJson(TRUE, "ADA-USDT", JsonNumber(300), JsonText, JsonNumber(2)),
    RawJson(TRUE, "BTC-USDT", JsonNumber(300), JsonNumber(2), JsonMissing) }

\* okx_parser.c:125-133  the index of inst_id in SYMBOLS, -1 if it is not there
RECURSIVE LookupSymbol(_, _)
LookupSymbol(inst_id, i) ==
  IF i >= NUM_SYMBOLS THEN 0 - 1
  ELSE IF inst_id = SYMBOLS[i + 1] THEN i
  ELSE LookupSymbol(inst_id, i + 1)

\* okx_parser.c:148-150, 164-166  strtod/strtoll of a field: the value and
\* whether the whole text was consumed (*endp == '\0')
StrToNumber(field) ==
  IF field.kind = "number" THEN [value |-> field.value, whole |-> TRUE]
  ELSE [value |-> 0, whole |-> FALSE]

\* okx_parser.c:150, 166  the value is rejected
InvalidValue(field) ==
  \/ ~StrToNumber(field).whole
  \/ StrToNumber(field).value <= 0

\* okx_parser.c:171-188  the timestamp, or the current time if the field is
\* missing or invalid
ParseTimestamp(field, now) ==
  IF field.kind # "missing"
  THEN IF InvalidValue(field) THEN now ELSE StrToNumber(field).value
  ELSE now

\* okx_parser.c:94-197  the return value and the fields written to *msg
\* (the fields are written only at 191-194, on success)
parse_okx_trade(json, msg, now) ==
  IF ~json.data THEN [ok |-> FALSE, msg |-> msg]
  ELSE IF json.instId = "" THEN [ok |-> FALSE, msg |-> msg]
  ELSE IF LookupSymbol(json.instId, 0) < 0 THEN [ok |-> FALSE, msg |-> msg]
  ELSE IF json.px.kind = "missing" THEN [ok |-> FALSE, msg |-> msg]
  ELSE IF InvalidValue(json.px) THEN [ok |-> FALSE, msg |-> msg]
  ELSE IF json.sz.kind = "missing" THEN [ok |-> FALSE, msg |-> msg]
  ELSE IF InvalidValue(json.sz) THEN [ok |-> FALSE, msg |-> msg]
  ELSE [ok |-> TRUE,
        msg |-> [msg EXCEPT !.symbol_index = LookupSymbol(json.instId, 0),
                            !.exchange_ts_ms = ParseTimestamp(json.ts, now),
                            !.price = StrToNumber(json.px).value,
                            !.size = StrToNumber(json.sz).value]]

\* the outcomes of a write to a log file: logger.c:49 and 139 (fd < 0),
\* logger.c:61 and 157 (write failed), or the line is written
WriteOutcomes == {"written", "failed", "not_open"}

\* logger.c:46-74  the trade log of a symbol after trade_log_append
trade_log_append(log, outcome, n) ==
  IF outcome = "written" THEN Append(log, n) ELSE log

\* logger.c:137-168  the latency log after log_latency_metrics
log_latency_metrics(log, outcome, n) ==
  IF outcome = "written" THEN Append(log, n) ELSE log

\* the variables of the other parts are left alone
ProcFrame == UNCHANGED <<schedVars, queueVars, win, last_add, snapVars, histVars,
                         timerVars, corrVars, logVars, wsVars, lockVars>>

\* main.c:112  while (!shutdown_requested)
proc_loop_top ==
  /\ proc.pc = "p_top"
  /\ proc' = [proc EXCEPT !.pc = IF shutdown_requested THEN "p_done" ELSE "p_pop"]
  /\ UNCHANGED <<sigVars, windows, proc_log, vwap_out>>
  /\ ProcFrame

\* main.c:114, queue.c:78, websocket.c:79  a message is popped: the raw frame
\* with every parsed field zeroed
proc_pop ==
  /\ proc.pc = "p_pop"
  /\ proc.n < MaxDequeued
  /\ \E json \in ProcMessages :
       /\ proc' = [pc |-> "p_parse", n |-> proc.n + 1,
                   msg |-> [raw |-> json, symbol_index |-> 0, exchange_ts_ms |-> 0,
                            price |-> 0, size |-> 0]]
       /\ proc_log' = [proc_log EXCEPT !.dequeued = Append(@, json)]
  /\ UNCHANGED <<sigVars, windows, vwap_out>>
  /\ ProcFrame

\* main.c:114-119, queue.c:71-75  the queue is empty and shutdown was
\* requested: pop returns 0 and the loop is left
proc_pop_shutdown ==
  /\ proc.pc = "p_pop"
  /\ shutdown_requested
  /\ proc' = [proc EXCEPT !.pc = "p_done"]
  /\ UNCHANGED <<sigVars, windows, proc_log, vwap_out>>
  /\ ProcFrame

\* main.c:125  the message that did not parse is processed all the same
ParseFailGoto_logs == "p_tlog"

\* main.c:125  continue after a message that did not parse
ParseFailGoto == "p_top"

\* main.c:122-126  parse_okx_trade(msg.raw_json, &msg)
proc_parse ==
  /\ proc.pc = "p_parse"
  /\ \E now \in 1..MaxTs :
       LET r == parse_okx_trade(proc.msg.raw, proc.msg, now) IN
         proc' = [proc EXCEPT !.msg = r.msg,
                              !.pc = IF r.ok THEN "p_tlog" ELSE ParseFailGoto]
  /\ UNCHANGED <<sigVars, windows, proc_log, vwap_out>>
  /\ ProcFrame

\* main.c:129  the trade log of the symbol is stopped by a failed write
proc_trade_log_stops ==
  /\ proc.pc = "p_tlog"
  /\ \E outcome \in WriteOutcomes :
       /\ proc' = [proc EXCEPT !.pc = IF outcome = "written" THEN "p_lat" ELSE "p_top"]
       /\ proc_log' = [proc_log EXCEPT !.trade_log[proc.msg.symbol_index] =
                         trade_log_append(@, outcome, proc.n)]
  /\ UNCHANGED <<sigVars, windows, vwap_out>>
  /\ ProcFrame

\* main.c:129  trade_log_append(msg.symbol_index, &msg)
proc_trade_log ==
  /\ proc.pc = "p_tlog"
  /\ \E outcome \in WriteOutcomes :
       /\ proc' = [proc EXCEPT !.pc = "p_lat"]
       /\ proc_log' = [proc_log EXCEPT !.trade_log[proc.msg.symbol_index] =
                         trade_log_append(@, outcome, proc.n)]
  /\ UNCHANGED <<sigVars, windows, vwap_out>>
  /\ ProcFrame

\* main.c:130-131  process_ts_ms = now_ms(); log_latency_metrics(...)
proc_latency ==
  /\ proc.pc = "p_lat"
  /\ \E outcome \in WriteOutcomes :
       /\ proc' = [proc EXCEPT !.pc = "p_add"]
       /\ proc_log' = [proc_log EXCEPT !.latency_log =
                         log_latency_metrics(@, outcome, proc.n)]
  /\ UNCHANGED <<sigVars, windows, vwap_out>>
  /\ ProcFrame

\* main.c:132  the window the trade is added to
TargetWindow_first(msg) == 0

TargetWindow(msg) == msg.symbol_index

\* main.c:132  sliding_window_add_trade(&symbols[msg.symbol_index].trade_window, ...)
proc_add_trade ==
  /\ proc.pc = "p_add"
  /\ windows' = [windows EXCEPT ![TargetWindow(proc.msg)] =
                   sliding_window_add_trade(@, proc.msg.exchange_ts_ms,
                                            proc.msg.price, proc.msg.size)]
  /\ proc_log' = [proc_log EXCEPT !.adds =
                    Append(@, [n |-> proc.n, window |-> TargetWindow(proc.msg),
                               trade_ts_ms |-> proc.msg.exchange_ts_ms,
                               price |-> proc.msg.price, size |-> proc.msg.size])]
  /\ proc' = [proc EXCEPT !.pc = "p_top"]
  /\ UNCHANGED <<sigVars, vwap_out>>
  /\ ProcFrame

\* vwap_calculator.c:34-37  the VWAP worker takes a snapshot of a symbol's window
proc_snapshot ==
  /\ \E i \in 0..(NUM_SYMBOLS - 1) :
       vwap_out' = [called |-> TRUE, value |-> sliding_window_snapshot_vwap(windows[i])]
  /\ UNCHANGED <<sigVars, procVars>>
  /\ ProcFrame

NextProc ==
  \/ proc_loop_top
  \/ proc_pop
  \/ proc_pop_shutdown
  \/ proc_parse
  \/ proc_trade_log
  \/ proc_latency
  \/ proc_add_trade
  \/ proc_snapshot
  \/ on_termination_signal_flag

SpecProc == Init /\ [][NextProc]_vars


(***************************************************************************)
(* Claims about the trade processor (checked under SpecProc)                *)
(***************************************************************************)

\* the frame is a trade of a configured instrument with a positive price and
\* a positive size
IsValidTrade(json) ==
  /\ json.data
  /\ \E i \in 1..NUM_SYMBOLS : SYMBOLS[i] = json.instId
  /\ json.px.kind = "number" /\ json.px.value > 0
  /\ json.sz.kind = "number" /\ json.sz.value > 0

\* the symbol index of a configured instrument
SymbolIndexOf(inst_id) == CHOOSE i \in 0..(NUM_SYMBOLS - 1) : SYMBOLS[i + 1] = inst_id

\* the number of dequeued messages whose loop iteration has ended
Completed == IF proc.pc \in {"p_top", "p_pop", "p_done"} THEN proc.n ELSE proc.n - 1

\* the positions in the call history of the add_trade calls made for message n
AddsOf(n) == {k \in DOMAIN proc_log.adds : proc_log.adds[k].n = n}

\* the window that results from the add_trade calls k.. of the history that
\* were made on window i, in their order
RECURSIVE ReplayAdds(_, _, _)
ReplayAdds(w, i, k) ==
  IF k > Len(proc_log.adds) THEN w
  ELSE LET a == proc_log.adds[k] IN
         ReplayAdds(IF a.window = i
                    THEN sliding_window_add_trade(w, a.trade_ts_ms, a.price, a.size)
                    ELSE w, i, k + 1)

\* C25: every dequeued message that parses causes exactly one add_trade, on
\* the window of its symbol and no other; the adds are made in dequeue order;
\* nothing but these add_trade calls ever changes a window
C25_OneAddPerParsedMessage ==
  /\ [](/\ \A n \in 1..Len(proc_log.dequeued) :
             Cardinality(AddsOf(n)) =
               IF n <= Completed /\ IsValidTrade(proc_log.dequeued[n]) THEN 1 ELSE 0
        /\ \A k \in DOMAIN proc_log.adds :
             LET a == proc_log.adds[k]
                 json == proc_log.dequeued[a.n] IN
               /\ a.window = SymbolIndexOf(json.instId)
               /\ a.price = json.px.value /\ a.size = json.sz.value
               /\ json.ts.kind = "number" /\ json.ts.value > 0
                    => a.trade_ts_ms = json.ts.value
        /\ \A k, l \in DOMAIN proc_log.adds :
             k < l => proc_log.adds[k].n < proc_log.adds[l].n
        /\ \A i \in 0..(NUM_SYMBOLS - 1) : windows[i] = ReplayAdds(EmptyWindow, i, 1))
  /\ [][windows' # windows =>
          /\ proc.pc = "p_add"
          /\ Len(proc_log.adds') = Len(proc_log.adds) + 1
          /\ \A i \in 0..(NUM_SYMBOLS - 1) :
               i # SymbolIndexOf(proc.msg.raw.instId) => windows'[i] = windows[i]]_vars

\* two trades of one instrument were dequeued and both are in its window
C25_Witness ==
  /\ proc.pc = "p_top"
  /\ Len(proc_log.adds) = 2
  /\ proc_log.adds[1].window = proc_log.adds[2].window
  /\ proc_log.adds[1].price # proc_log.adds[2].price
  /\ windows[proc_log.adds[1].window].size = 2
  /\ vwap_out.called

\* the messages in a log
LoggedIn(log) == {log[k] : k \in DOMAIN log}

\* C26: a message that parse_okx_trade rejects is not logged, gets no latency
\* record and no add_trade, leaves every window as it was, and the loop goes
\* back to its top
C26_RejectedMessageSkipped ==
  /\ [](\A n \in 1..Len(proc_log.dequeued) :
          ~IsValidTrade(proc_log.dequeued[n]) =>
            /\ \A i \in 0..(NUM_SYMBOLS - 1) : n \notin LoggedIn(proc_log.trade_log[i])
            /\ n \notin LoggedIn(proc_log.latency_log)
            /\ AddsOf(n) = {})
  /\ [][proc.pc = "p_parse" /\ ~IsValidTrade(proc.msg.raw) /\ proc' # proc =>
          /\ proc'.pc = "p_top" /\ proc'.n = proc.n
          /\ windows' = windows
          /\ proc_log' = proc_log]_vars

\* a rejected message was skipped after a trade had been processed
C26_Witness ==
  /\ proc.pc = "p_top" /\ proc.n = 2
  /\ ~IsValidTrade(proc_log.dequeued[2])
  /\ IsValidTrade(proc_log.dequeued[1])
  /\ windows[SymbolIndexOf(proc_log.dequeued[1].instId)].size = 1

\* C27: a trade-log or latency-log write that fails, or a log that is not
\* open, does not stop the iteration: the latency record and add_trade still
\* follow and the loop goes on
C27_LogFailureStillAdds ==
  /\ [](\A n \in 1..Completed :
          IsValidTrade(proc_log.dequeued[n])
          /\ (\/ \A i \in 0..(NUM_SYMBOLS - 1) : n \notin LoggedIn(proc_log.trade_log[i])
              \/ n \notin LoggedIn(proc_log.latency_log))
          => AddsOf(n) # {})
  /\ [][proc' # proc =>
          /\ proc.pc = "p_tlog" => proc'.pc = "p_lat"
          /\ proc.pc = "p_lat" => proc'.pc = "p_add"
          /\ proc.pc = "p_add" => proc'.pc = "p_top"]_vars

\* a trade is in its window though neither log has a line for it
C27_Witness ==
  \E k \in DOMAIN proc_log.adds :
    LET a == proc_log.adds[k] IN
      /\ a.n \notin LoggedIn(proc_log.trade_log[a.window])
      /\ a.n \notin LoggedIn(proc_log.latency_log)
      /\ windows[a.window].size > 0
      /\ proc.pc = "p_pop"


(***************************************************************************)
(* Claims about late trades and capacity (checked under SpecWindow)         *)
(***************************************************************************)

\* the timestamps of the entries that were live before the last add_trade
\* and still are
EarlierTs(w) == {LiveEntries(w)[i].trade_ts_ms : i \in 1..(w.size - 1)}

\* the last add_trade appended a late trade: more than W older than the
\* newest timestamp that was in the window
LateTradeAppended(w) ==
  /\ w.size >= 2
  /\ \E t \in EarlierTs(w) : Newest(w).trade_ts_ms < t - WINDOW_MS

\* C28: after a late trade (more than W older than the newest timestamp in
\* the window) has been appended, the next add_trade with a timestamp at or
\* after that newest timestamp evicts it: the late trade, which is the last
\* entry before the call, is no longer live after it, so the window holds
\* the new trade alone and the sums are those of the new trade.
C28_LateTradeEvictedByNextAdd ==
  [][(/\ add_trade
      /\ LateTradeAppended(win)
      /\ \A t \in EarlierTs(win) : Newest(win').trade_ts_ms >= t)
     => /\ win'.size = 1
        /\ win'.sum_volume = Newest(win').size
        /\ win'.sum_price_volume = Newest(win').price * Newest(win').size]_vars

\* C29: size <= K always; an add_trade on a window that holds K entries
\* after pruning removes exactly the head entry, subtracting its price*size
\* and its size, and appends: size stays K and the K most recently added
\* entries are live.
C29_CapacityEvictsHeadOnly ==
  /\ [](win.size <= WINDOW_CAPACITY)
  /\ [][(add_trade /\ PruneExpired(win, Newest(win').trade_ts_ms - WINDOW_MS).size
                        = WINDOW_CAPACITY)
        => /\ win'.size = WINDOW_CAPACITY
           /\ LiveEntries(win') = Append(Tail(LiveEntries(win)), Newest(win'))
           /\ win'.sum_volume
                = win.sum_volume - Head(LiveEntries(win)).size + Newest(win').size
           /\ win'.sum_price_volume
                = win.sum_price_volume
                    - Head(LiveEntries(win)).price * Head(LiveEntries(win)).size
                    + Newest(win').price * Newest(win').size]_vars

\* the last add_trade found the window full after pruning nothing and
\* evicted the head
C29_Witness ==
  /\ last_add.evicted /\ last_add.pruned = 0
  /\ win.size = WINDOW_CAPACITY
  /\ win.head_idx # 0


(***************************************************************************)
(* The window fed with trades of size 1 at every timestamp                  *)
(***************************************************************************)

\* <<price, size>> of the trades: three prices, size 1
UnitTrades == {<<100, 1>>, <<200, 1>>, <<300, 1>>}

\* main.c:132  the trade processor adds a parsed trade of size 1 to the window
add_unit_trade ==
  \E ts_ms \in 0..MaxTs, ps \in UnitTrades :
    /\ win' = sliding_window_add_trade(win, ts_ms, ps[1], ps[2])
    /\ last_add' =
         [pruned  |-> win.size - PruneExpired(win, ts_ms - WINDOW_MS).size,
          evicted |-> PruneExpired(win, ts_ms - WINDOW_MS).size = WINDOW_CAPACITY]
    /\ vwap_out' = NoSnapshot
    /\ UNCHANGED <<sigVars, schedVars, queueVars, moreVars>>

NextUnit == add_unit_trade \/ snapshot_vwap

SpecUnit == Init /\ [][NextUnit]_vars

(***************************************************************************)
(* Claim about the pruning cutoff (checked under SpecUnit)                  *)
(***************************************************************************)

\* the number of leading entries of seq whose timestamp is strictly less
\* than t - W
RECURSIVE ExpiredPrefix(_, _)
ExpiredPrefix(seq, t) ==
  IF seq # <<>> /\ Head(seq).trade_ts_ms < t - WINDOW_MS
  THEN 1 + ExpiredPrefix(Tail(seq), t)
  ELSE 0

\* the entries of seq after its first k
DropFirst(seq, k) == SubSeq(seq, k + 1, Len(seq))

\* the trades of the example: (0, 100, 1), (W, 200, 1), (W+1, 300, 1)
ExampleFirst  == [trade_ts_ms |-> 0, price |-> 100, size |-> 1]
ExampleSecond == [trade_ts_ms |-> WINDOW_MS, price |-> 200, size |-> 1]
ExampleThird  == [trade_ts_ms |-> WINDOW_MS + 1, price |-> 300, size |-> 1]

\* C30: add_trade with timestamp t removes entries from the head while the
\* head's timestamp is strictly less than t - W: a head exactly W older than
\* t is kept, a head W+1 older is removed; the trades (0, 100, 1),
\* (W, 200, 1), (W+1, 300, 1) leave sum_volume = 2, sum_price_volume = 500
\* and VWAP = 250, and after the second of them the first two are both live.
C30_PruneStrictlyOlderThanW ==
  [][add_unit_trade =>
       LET t    == Newest(win').trade_ts_ms
           old  == LiveEntries(win)
           kept == DropFirst(old, ExpiredPrefix(old, t))
       IN /\ LiveEntries(win') =
               Append(IF Len(kept) = WINDOW_CAPACITY THEN Tail(kept) ELSE kept,
                      Newest(win'))
          /\ last_add'.pruned = ExpiredPrefix(old, t)
          /\ (old # <<>> /\ old[1].trade_ts_ms = t - WINDOW_MS) => last_add'.pruned = 0
          /\ (old # <<>> /\ old[1].trade_ts_ms = t - WINDOW_MS - 1) => last_add'.pruned >= 1
          /\ (old = <<ExampleFirst>> /\ Newest(win') = ExampleSecond)
               => LiveEntries(win') = <<ExampleFirst, ExampleSecond>>
          /\ (old = <<ExampleFirst, ExampleSecond>> /\ Newest(win') = ExampleThird)
               => /\ win'.sum_volume = 2
                  /\ win'.sum_price_volume = 500
                  /\ sliding_window_snapshot_vwap(win')
                       = [nan |-> FALSE, num |-> 250, den |-> 1]
    ]_vars

\* the third trade of the example has pruned the first and kept the second,
\* and the snapshot taken afterwards is 250
C30_Witness ==
  /\ LiveEntries(win) = <<ExampleSecond, ExampleThird>>
  /\ last_add = [pruned |-> 1, evicted |-> FALSE]
  /\ win.sum_volume = 2 /\ win.sum_price_volume = 500
  /\ vwap_out = [called |-> TRUE, value |-> [nan |-> FALSE, num |-> 250, den |-> 1]]


(***************************************************************************)
(* Laws of the window sums (checked under SpecWindow)                       *)
(***************************************************************************)

\* the last add_trade appended its trade without removing any entry
InsertedWithoutRemoval == last_add.pruned = 0 /\ ~last_add.evicted /\ win.size >= 1

\* sum_price_volume and sum_volume before the last add_trade, when that call
\* removed nothing
PreInsertSums ==
  [sum_price_volume |-> win.sum_price_volume - Newest(win).price * Newest(win).size,
   sum_volume |-> win.sum_volume - Newest(win).size]

\* the step is an add_trade whose prune loop removes every live entry,
\* the trade added last included
ExpiresNewest ==
  /\ add_trade
  /\ win.size >= 1
  /\ last_add'.pruned = win.size
  /\ Newest(win).trade_ts_ms < Newest(win').trade_ts_ms - WINDOW_MS

\* C31 as stated: after a trade has been inserted and then removed by
\* timestamp expiration, sum_price_volume and sum_volume are the values they
\* had before the insert, whatever the window held before the insert
C31_ExpiryRestoresPreInsertSums ==
  [][(InsertedWithoutRemoval /\ ExpiresNewest) =>
       /\ win'.sum_price_volume = PreInsertSums.sum_price_volume
       /\ win'.sum_volume = PreInsertSums.sum_volume]_vars

\* the entries that an add_trade step removes: the first ones of the window
RemovedEntries == SubSeq(LiveEntries(win), 1, win.size + 1 - win'.size)

\* C31: every add_trade subtracts exactly price*size and size of each entry
\* it removes and adds price*size and size of its trade; adding the same
\* trade twice in a row leaves the sums of the other live entries plus twice
\* its price*size and twice its size; after the add_trade that expires a
\* trade and everything before it the sums are those of the new trade alone
C31_SumsAddAndSubtractExactly ==
  [][add_trade =>
       LET new == Newest(win') IN
         /\ win'.sum_price_volume
              = win.sum_price_volume - SumPriceVolume(RemovedEntries) + new.price * new.size
         /\ win'.sum_volume
              = win.sum_volume - SumVolume(RemovedEntries) + new.size
         /\ (win.size >= 1 /\ win'.size >= 2 /\ Newest(win) = new) =>
              LET others == SubSeq(LiveEntries(win'), 1, win'.size - 2) IN
                /\ win'.sum_price_volume
                     = SumPriceVolume(others) + 2 * new.price * new.size
                /\ win'.sum_volume = SumVolume(others) + 2 * new.size
         /\ ExpiresNewest =>
              /\ win'.size = 1
              /\ win'.sum_price_volume = new.price * new.size
              /\ win'.sum_volume = new.size]_vars

\* the last add_trade has removed two entries by expiration and its trade
\* is the only live one
C31_Witness ==
  /\ last_add.pruned = 2 /\ ~last_add.evicted
  /\ win.size = 1
  /\ win.sum_volume = 2 /\ win.sum_price_volume = 600


(***************************************************************************)
(* The lagged search with two maximum lags on the same history              *)
(* (correlation.c:50-114)                                                   *)
(***************************************************************************)

\* correlation.c:166  find_best_lagged_correlation with max_lag_min = lag1 and,
\* on the same source vector, history and min_offset_min, with lag2 >= lag1;
\* the search follows the append of the tick (vwap_calculator.c:38)
hist_find_best_lags ==
  /\ call.op = "append"
  /\ \E src \in SrcVectors, min_offset_min \in {0, MOVING_AVG_POINTS},
        lag1 \in 0..MAX_LAG_MINUTES :
       \E lag2 \in lag1..MAX_LAG_MINUTES :
         LET r1 == find_best_lagged_correlation(src, hist, MOVING_AVG_POINTS,
                                                min_offset_min, lag1)
             r2 == find_best_lagged_correlation(src, hist, MOVING_AVG_POINTS,
                                                min_offset_min, lag2)
         IN call' = [op |-> "find_best_lags", src |-> src,
                     min_offset_min |-> min_offset_min, lags |-> <<lag1, lag2>>,
                     corr |-> r1.corr, ts |-> r1.ts, corr2 |-> r2.corr, ts2 |-> r2.ts]
  /\ UNCHANGED <<hist, appended>>
  /\ HistFrame

NextLag == hist_append \/ hist_find_best_lags

SpecLag == Init /\ [][NextLag]_vars

\* C33: for a fixed source vector, target history and min_offset, the
\* absolute value of the result with the larger maximum lag is at least
\* that with the smaller one; NaN counts as below every value, so a result
\* with the smaller lag implies a result with the larger.
C33_BestLagMonotone ==
  call.op = "find_best_lags" =>
    /\ ~call.corr.nan => ~call.corr2.nan
    /\ ~call.corr.nan => ~AbsLess(call.corr2, call.corr)

\* the larger maximum lag has found a strictly better correlation in a
\* history that has wrapped around, and the smaller one had found one too
C33_Witness ==
  /\ call.op = "find_best_lags"
  /\ call.lags[1] < call.lags[2]
  /\ ~call.corr.nan /\ ~call.corr2.nan
  /\ AbsLess(call.corr, call.corr2)
  /\ call.ts2 < call.ts
  /\ Len(appended) > VWAP_HISTORY_SIZE_MINUTES


(***************************************************************************)
(* The websocket thread: connect, service loop, reconnect with backoff      *)
(* (websocket.c:143-214) and the callbacks that change its globals          *)
(* (websocket.c:35-110)                                                     *)
(***************************************************************************)

\* websocket.c:159
MAX_RETRY_ATTEMPTS == 8

\* websocket.c:67  the wait set when a connection is established
InitialBackoff == 2

WsFrame == UNCHANGED <<schedVars, queueVars, winVars, snapVars, histVars, timerVars,
                       corrVars, logVars, procVars, lockVars>>

WsGoto(next) ==
  /\ ws' = [ws EXCEPT !.pc = next]
  /\ UNCHANGED sigVars
  /\ WsFrame

\* websocket.c:161  while (!shutdown_requested)
ws_loop_top ==
  /\ ws.pc = "ws_top"
  /\ WsGoto(IF shutdown_requested THEN "ws_done" ELSE "ws_connect")

\* websocket.c:175  ws_client = lws_client_connect_via_info(&conn_info): a
\* connection in progress, or NULL when the attempt fails at once
ws_connect ==
  /\ ws.pc = "ws_connect"
  /\ \E c \in {"connecting", "null"} :
       ws' = [ws EXCEPT !.pc = "ws_service", !.client = c]
  /\ UNCHANGED sigVars
  /\ WsFrame

\* websocket.c:35-69  LWS_CALLBACK_CLIENT_ESTABLISHED, called from lws_service
ws_established ==
  /\ ws.pc = "ws_service" /\ ws.client = "connecting"
  /\ ws' = [ws EXCEPT !.client = "established", !.reconnect_attempts = 0,
                      !.reconnect_backoff_s = InitialBackoff, !.slept = <<>>]
  /\ UNCHANGED sigVars
  /\ WsFrame

\* websocket.c:93-98  LWS_CALLBACK_CLIENT_CONNECTION_ERROR, called from lws_service
ws_connection_error ==
  /\ ws.pc = "ws_service" /\ ws.client = "connecting"
  /\ ws' = [ws EXCEPT !.client = "null"]
  /\ UNCHANGED sigVars
  /\ WsFrame

\* websocket.c:100-109  LWS_CALLBACK_CLIENT_CLOSED, called from lws_service
ws_closed ==
  /\ ws.pc = "ws_service" /\ ws.client = "established"
  /\ ws' = [ws EXCEPT !.client = "null"]
  /\ UNCHANGED sigVars
  /\ WsFrame

\* websocket.c:181-188  the service loop is left on shutdown or when
\* ws_client is NULL
ws_service_exit ==
  /\ ws.pc = "ws_service"
  /\ shutdown_requested \/ ws.client = "null"
  /\ WsGoto("ws_after_service")

\* websocket.c:190-191  if (shutdown_requested) break
ws_after_service ==
  /\ ws.pc = "ws_after_service"
  /\ WsGoto(IF shutdown_requested THEN "ws_done"
            ELSE IF ws.client = "null" THEN "ws_count" ELSE "ws_top")

\* websocket.c:195-200  ++reconnect_attempts > MAX_RETRY_ATTEMPTS: raise(SIGINT),
\* whose handler sets shutdown_requested (main.c:152), and leave the loop
ws_count_failure ==
  /\ ws.pc = "ws_count"
  /\ IF ws.reconnect_attempts + 1 > MAX_RETRY_ATTEMPTS
     THEN /\ ws' = [ws EXCEPT !.reconnect_attempts = @ + 1, !.pc = "ws_done"]
          /\ shutdown_requested' = TRUE
          /\ UNCHANGED handler_pc
     ELSE /\ ws' = [ws EXCEPT !.reconnect_attempts = @ + 1, !.pc = "ws_sleep"]
          /\ UNCHANGED sigVars
  /\ WsFrame

\* websocket.c:204-207  sleep(reconnect_backoff_s); reconnect_backoff_s *= 2
ws_sleep ==
  /\ ws.pc = "ws_sleep"
  /\ ws' = [ws EXCEPT !.slept = Append(@, ws.reconnect_backoff_s),
                      !.reconnect_backoff_s = @ * 2,
                      !.pc = "ws_top"]
  /\ UNCHANGED sigVars
  /\ WsFrame

NextWs ==
  \/ ws_loop_top
  \/ ws_connect
  \/ ws_established
  \/ ws_connection_error
  \/ ws_closed
  \/ ws_service_exit
  \/ ws_after_service
  \/ ws_count_failure
  \/ ws_sleep
  \/ on_termination_signal_flag

SpecWs == Init /\ [][NextWs]_vars

\* C34: after a failed attempt or a lost connection the thread waits before
\* it retries, the k-th consecutive wait being 2^k s (2, 4, 8, ...), also
\* when no connection has been established since start; after more than
\* MAX_RETRY_ATTEMPTS consecutive failures it requests shutdown and does not
\* retry; an established connection sets the count to 0 and the wait to 2 s.
C34_BackoffDoublesFromTwo ==
  /\ \A k \in 1..Len(ws.slept) : ws.slept[k] = 2 ^ k
  /\ ws.pc = "ws_sleep" => ws.reconnect_backoff_s = 2 ^ ws.reconnect_attempts
  /\ ws.reconnect_attempts > MAX_RETRY_ATTEMPTS => shutdown_requested /\ ws.pc = "ws_done"
  /\ Len(ws.slept) <= MAX_RETRY_ATTEMPTS
  /\ ws.client = "established" =>
       ws.reconnect_attempts = 0 /\ ws.reconnect_backoff_s = 2

\* the part of C34 that does not depend on the first connection: the retry
\* bound and the reset by an established connection
RetriesBoundedAndReset ==
  /\ ws.reconnect_attempts > MAX_RETRY_ATTEMPTS => shutdown_requested /\ ws.pc = "ws_done"
  /\ Len(ws.slept) <= MAX_RETRY_ATTEMPTS
  /\ ws.client = "established" =>
       ws.reconnect_attempts = 0 /\ ws.reconnect_backoff_s = 2


(***************************************************************************)
(* Shutdown of the trade processor thread (main.c:107-136, queue.c:64-85)   *)
(***************************************************************************)

\* C35: the trade processor thread terminates only after raw_queue_pop has
\* returned 0, which pop does only with the ring empty: when the thread has
\* returned, its last pop returned 0 and no message pushed before the
\* shutdown request was left in the ring.
C35_ExitsOnlyAfterPopReturnedZero ==
  cons_pc = "returned" => pop_ret = 0

\* what does hold: pop itself returns 0 only with shutdown requested and the
\* ring seen empty under the lock
PopReturnsZeroOnlyWhenDrained ==
  cons_pc = "c_ret0" => shutdown_requested /\ QueueEmpty

\* the thread has returned with a message still in the ring
ReturnedWithMessagesLeft ==
  cons_pc = "returned" /\ ~QueueEmpty /\ pop_ret # 0


(***************************************************************************)
(* Claims about a window after its first trade (checked under SpecWindow)   *)
(***************************************************************************)

add_trade_in_order ==
  \E ts_ms \in 0..MaxTs, ps \in TradeInputs :
    /\ win.size > 0 => ts_ms >= Newest(win).trade_ts_ms
    /\ win' = sliding_window_add_trade(win, ts_ms, ps[1], ps[2])
    /\ last_add' =
         [pruned  |-> win.size - PruneExpired(win, ts_ms - WINDOW_MS).size,
          evicted |-> PruneExpired(win, ts_ms - WINDOW_MS).size = WINDOW_CAPACITY]
    /\ vwap_out' = NoSnapshot
    /\ UNCHANGED <<sigVars, schedVars, queueVars, moreVars>>

NextOrdered == add_trade_in_order \/ snapshot_vwap

SpecOrdered == Init /\ [][NextOrdered]_vars

\* C37: with non-decreasing timestamps, after every add_trade the live
\* entries are in non-decreasing timestamp order from head to tail and each
\* has trade_ts_ms >= (timestamp of the trade added last) - W.
C37_OrderedInputKeepsWindowSortedAndFresh ==
  /\ \A i, j \in 1..win.size :
       i <= j => LiveEntries(win)[i].trade_ts_ms <= LiveEntries(win)[j].trade_ts_ms
  /\ \A i \in 1..win.size :
       LiveEntries(win)[i].trade_ts_ms >= Newest(win).trade_ts_ms - WINDOW_MS

\* C37 witness: the last add_trade pruned an expired entry and kept an older
\* one that is still inside the window
C37_Witness ==
  /\ last_add.pruned >= 1
  /\ win.size >= 2
  /\ LiveEntries(win)[1].trade_ts_ms < Newest(win).trade_ts_ms


(***************************************************************************)
(* One history shared by the VWAP worker (vwap_history_append) and the      *)
(* correlation worker (find_best_lagged_correlation), statement by          *)
(* statement; both hold h->lock (vwap_history.c:40-58, correlation.c:50-114)*)
(***************************************************************************)

SearchFrame ==
  UNCHANGED <<sigVars, schedVars, queueVars, winVars, snapVars, timerVars, corrVars,
              logVars, procVars, wsVars, mtx>>

\* bug variant: the append starts without taking h->lock
srch_append_lock_free ==
  /\ srch.a_pc = "a_idle"
  /\ Len(appended) < MaxAppends
  /\ \E v \in VwapInputs : srch' = [srch EXCEPT !.a_pc = "a_full", !.a_vwap = v]
  /\ UNCHANGED <<hist, appended, call>>
  /\ SearchFrame

\* vwap_history.c:42  pthread_mutex_lock(&h->lock); the call is entered here
srch_append_lock ==
  /\ srch.a_pc = "a_idle"
  /\ Len(appended) < MaxAppends
  /\ srch.lock = "none"
  /\ \E v \in VwapInputs :
       srch' = [srch EXCEPT !.lock = "vwap", !.a_pc = "a_full", !.a_vwap = v]
  /\ UNCHANGED <<hist, appended, call>>
  /\ SearchFrame

\* vwap_history.c:45-49  if (size == capacity) { advance head_idx; size--; }
srch_append_full ==
  /\ srch.a_pc = "a_full"
  /\ hist' = IF hist.size = VWAP_HISTORY_SIZE_MINUTES
             THEN [hist EXCEPT !.head_idx = (@ + 1) % VWAP_HISTORY_SIZE_MINUTES,
                               !.size = @ - 1]
             ELSE hist
  /\ srch' = [srch EXCEPT !.a_pc = "a_store"]
  /\ UNCHANGED <<appended, call>>
  /\ SearchFrame

\* vwap_history.c:52-55  write the slot at tail_idx, advance tail_idx, size++
srch_append_store ==
  /\ srch.a_pc = "a_store"
  /\ hist' = [hist EXCEPT
                !.buffer[hist.tail_idx] = Point(Len(appended) + 1, srch.a_vwap),
                !.tail_idx = (@ + 1) % VWAP_HISTORY_SIZE_MINUTES,
                !.size = @ + 1]
  /\ appended' = Append(appended, Point(Len(appended) + 1, srch.a_vwap))
  /\ srch' = [srch EXCEPT !.a_pc = "a_unlock"]
  /\ UNCHANGED call
  /\ SearchFrame

\* vwap_history.c:57  pthread_mutex_unlock(&h->lock)
srch_append_unlock ==
  /\ srch.a_pc = "a_unlock"
  /\ srch' = [srch EXCEPT !.lock = IF @ = "vwap" THEN "none" ELSE @,
                          !.a_pc = "a_idle", !.a_vwap = NaN]
  /\ UNCHANGED <<hist, appended, call>>
  /\ SearchFrame

\* correlation.c:56  pthread_mutex_lock(&target_hist->lock); the call is
\* entered here with its source vector and minimum offset
srch_search_lock ==
  /\ srch.s_pc = "s_idle"
  /\ srch.lock = "none"
  /\ \E src \in SrcVectors, min_offset_min \in {0, MOVING_AVG_POINTS} :
       srch' = [srch EXCEPT !.lock = "corr", !.s_pc = "s_size",
                            !.s = [NoSearch EXCEPT !.src = src,
                                                   !.min_offset_min = min_offset_min]]
  /\ UNCHANGED <<hist, appended, call>>
  /\ SearchFrame

\* correlation.c:58-75  hist_len = size; return when it is too short, else
\* set max_search_offset and start the loop at min_offset_min
srch_search_size ==
  /\ srch.s_pc = "s_size"
  /\ srch' =
       [srch EXCEPT
          !.s_pc = IF hist.size < MOVING_AVG_POINTS + srch.s.min_offset_min
                   THEN "s_unlock" ELSE "s_loop",
          !.s = [@ EXCEPT !.hist_len = hist.size,
                          !.seen = hist,
                          !.max_search_offset =
                             Min(MAX_LAG_MINUTES, hist.size - MOVING_AVG_POINTS),
                          !.offset = srch.s.min_offset_min]]
  /\ UNCHANGED <<hist, appended, call>>
  /\ SearchFrame

\* correlation.c:77-105  one pass of the loop: the test, the P reads, the
\* correlation and the comparison with the best so far, ++offset
srch_search_offset ==
  /\ srch.s_pc = "s_loop"
  /\ IF srch.s.offset > srch.s.max_search_offset
     THEN srch' = [srch EXCEPT !.s_pc = "s_unlock"]
     ELSE LET raw == hist.head_idx + hist.size - MOVING_AVG_POINTS - srch.s.offset
              window_start_idx == raw % VWAP_HISTORY_SIZE_MINUTES
              ring == [k \in 1..MOVING_AVG_POINTS |->
                         (window_start_idx + k - 1) % VWAP_HISTORY_SIZE_MINUTES]
              target_vec == [k \in 1..MOVING_AVG_POINTS |-> hist.buffer[ring[k]].vwap]
              corr == pearson_correlation(srch.s.src, target_vec, MOVING_AVG_POINTS)
              end_idx == (window_start_idx + MOVING_AVG_POINTS - 1)
                           % VWAP_HISTORY_SIZE_MINUTES
          IN srch' =
               [srch EXCEPT
                  !.s = [@ EXCEPT
                           !.start = raw,
                           !.slots = ring,
                           !.offset = @ + 1,
                           !.best =
                              IF ~corr.nan /\ (~srch.s.best.found_match
                                               \/ AbsGreater(corr, srch.s.best.corr))
                              THEN [found_match |-> TRUE, corr |-> corr,
                                    ts |-> hist.buffer[end_idx].minute_ts_ms]
                              ELSE @]]
  /\ UNCHANGED <<hist, appended, call>>
  /\ SearchFrame

\* correlation.c:63-64 and 107-113  pthread_mutex_unlock on both return
\* paths; *out_corr and *out_minute_ts_ms are written
srch_search_unlock ==
  /\ srch.s_pc = "s_unlock"
  /\ srch' = [srch EXCEPT !.lock = IF @ = "corr" THEN "none" ELSE @,
                          !.s_pc = "s_idle", !.s = NoSearch]
  /\ call' = [NoCall EXCEPT
                !.op = "find_best", !.src = srch.s.src,
                !.min_offset_min = srch.s.min_offset_min,
                !.corr = IF srch.s.best.found_match THEN srch.s.best.corr ELSE NaNCorr,
                !.ts = IF srch.s.best.found_match THEN srch.s.best.ts ELSE 0]
  /\ UNCHANGED <<hist, appended>>
  /\ SearchFrame

NextSearch ==
  \/ srch_append_lock
  \/ srch_append_full
  \/ srch_append_store
  \/ srch_append_unlock
  \/ srch_search_lock
  \/ srch_search_size
  \/ srch_search_offset
  \/ srch_search_unlock

SpecSearch == Init /\ [][NextSearch]_vars

\* the ring slots of the live entries of h
LiveSlots(h) == {(h.head_idx + k) % VWAP_HISTORY_SIZE_MINUTES : k \in 0..(h.size - 1)}

\* the last n points appended
LastAppended(n) == {appended[k] : k \in (Len(appended) - n + 1)..Len(appended)}

\* C38: for every offset the search evaluates, head_idx + size - P - offset
\* >= head_idx before the modulo, and the P slots it reads are live entries
\* of the target history, holding points that were appended and not evicted;
\* from the read of size to the end of the search the history is the one
\* whose size was read, and the search returns what the search of that
\* history as a whole returns.
C38_SearchReadsLiveSlotsOfFrozenHistory ==
  /\ srch.s_pc \in {"s_loop", "s_unlock"} =>
       /\ srch.lock = "corr"
       /\ hist = srch.s.seen
       /\ hist.size = srch.s.hist_len
  /\ srch.s.slots # <<>> =>
       /\ srch.s.start >= hist.head_idx
       /\ \A k \in 1..MOVING_AVG_POINTS :
            /\ srch.s.slots[k] \in LiveSlots(hist)
            /\ hist.buffer[srch.s.slots[k]] \in LastAppended(hist.size)
  /\ srch.s_pc = "s_unlock" =>
       LET r == find_best_lagged_correlation(srch.s.src, srch.s.seen, MOVING_AVG_POINTS,
                                             srch.s.min_offset_min, MAX_LAG_MINUTES)
       IN /\ srch.s.best.found_match => r = [corr |-> srch.s.best.corr, ts |-> srch.s.best.ts]
          /\ ~srch.s.best.found_match => r.corr.nan

\* C38 witness: the search is in its loop on a full history that has wrapped,
\* its last window started at the head entry, and an append is waiting for
\* the lock
C38_Witness ==
  /\ srch.s_pc = "s_loop"
  /\ hist.size = VWAP_HISTORY_SIZE_MINUTES /\ hist.head_idx # 0
  /\ srch.s.slots # <<>> /\ srch.s.start = hist.head_idx
  /\ srch.a_pc = "a_idle" /\ Len(appended) < MaxAppends


(***************************************************************************)
(* The mutexes: which thread takes which lock, where, and where it gives    *)
(* it back (queue.c:40-85, sliding_window.c:42-95, vwap_history.c:40-88,    *)
(* correlation.c:50-114 and the loops that call them)                       *)
(***************************************************************************)

RingLock == <<"ring", 0>>
WindowLock(i) == <<"window", i>>
HistoryLock(i) == <<"history", i>>

\* the mutexes a thread holds
Holds(t) == {m \in Mutexes : mtx.owner[m] = t}

LockFrame ==
  UNCHANGED <<schedVars, queueVars, winVars, snapVars, histVars, timerVars, corrVars,
              logVars, procVars, wsVars, srch>>

\* pthread_mutex_lock(m) by thread t, which continues at `next`
MutexLock(t, m, next) ==
  /\ mtx.owner[m] = "none"
  /\ mtx' = [mtx EXCEPT !.owner[m] = t, !.pc[t] = next]
  /\ UNCHANGED sigVars
  /\ LockFrame

\* websocket.c:88, queue.c:42  the receive callback calls raw_queue_push
lk_push_lock ==
  /\ mtx.pc["ws"] = "top"
  /\ MutexLock("ws", RingLock, "push_body")

\* queue.c:44-55  drop the oldest while full, store, signal, unlock, return
lk_push_unlock ==
  /\ mtx.pc["ws"] = "push_body"
  /\ mtx' = [mtx EXCEPT !.count = Min(@ + 1, RAW_TRADE_QUEUE_SIZE - 1),
                        !.owner[RingLock] = "none",
                        !.pc["ws"] = "top"]
  /\ UNCHANGED sigVars
  /\ LockFrame

\* main.c:112 and vwap_calculator.c:23-31, correlation.c:125-133  the loop
\* test of the trade processor and of a worker: leave on shutdown, else
\* start with symbol 0
lk_loop_top(t) ==
  /\ mtx.pc[t] = "top"
  /\ mtx' = [mtx EXCEPT
               !.pc[t] = IF shutdown_requested THEN "done"
                         ELSE IF t = "tp" THEN "pop_lock"
                         ELSE IF t = "vwap" THEN "snap_lock" ELSE "gr_lock",
               !.i[t] = 0]
  /\ UNCHANGED sigVars
  /\ LockFrame

\* queue.c:66  pthread_mutex_lock, and the re-acquisition when
\* pthread_cond_wait returns (after a signal or spuriously)
lk_pop_lock ==
  /\ mtx.pc["tp"] \in {"pop_lock", "pop_wait"}
  /\ MutexLock("tp", RingLock, "pop_check")

\* queue.c:68-80  empty and no shutdown: pthread_cond_wait gives the mutex
\* back and sleeps; shutdown and empty: the return-0 path; else take a message
lk_pop_check ==
  /\ mtx.pc["tp"] = "pop_check"
  /\ mtx' = IF mtx.count = 0 /\ ~shutdown_requested
            THEN [mtx EXCEPT !.owner[RingLock] = "none", !.pc["tp"] = "pop_wait"]
            ELSE IF shutdown_requested /\ mtx.count = 0
            THEN [mtx EXCEPT !.pc["tp"] = "pop_ret0"]
            ELSE [mtx EXCEPT !.count = @ - 1, !.pc["tp"] = "pop_ret1"]
  /\ UNCHANGED sigVars
  /\ LockFrame

\* bug variant: the return-0 path leaves without pthread_mutex_unlock
lk_pop_unlock_not_on_return0 ==
  /\ mtx.pc["tp"] \in {"pop_ret0", "pop_ret1"}
  /\ IF mtx.pc["tp"] = "pop_ret0"
     THEN mtx' = [mtx EXCEPT !.pc["tp"] = IF shutdown_requested THEN "done" ELSE "top"]
     ELSE \E parsed \in {-1} \cup (0..(NUM_SYMBOLS - 1)) :
            mtx' = [mtx EXCEPT
                      !.owner[RingLock] = "none",
                      !.pc["tp"] = IF parsed < 0 THEN "top" ELSE "add_lock",
                      !.i["tp"] = IF parsed < 0 THEN 0 ELSE parsed]
  /\ UNCHANGED sigVars
  /\ LockFrame

\* queue.c:75-76 and 82-84, main.c:114-126  pthread_mutex_unlock on both
\* return paths; after return 0 break or continue; after return 1 the
\* message is parsed: rejected, or a trade of symbol `parsed`
lk_pop_unlock ==
  /\ mtx.pc["tp"] \in {"pop_ret0", "pop_ret1"}
  /\ IF mtx.pc["tp"] = "pop_ret0"
     THEN mtx' = [mtx EXCEPT
                    !.owner[RingLock] = "none",
                    !.pc["tp"] = IF shutdown_requested THEN "done" ELSE "top"]
     ELSE \E parsed \in {-1} \cup (0..(NUM_SYMBOLS - 1)) :
            mtx' = [mtx EXCEPT
                      !.owner[RingLock] = "none",
                      !.pc["tp"] = IF parsed < 0 THEN "top" ELSE "add_lock",
                      !.i["tp"] = IF parsed < 0 THEN 0 ELSE parsed]
  /\ UNCHANGED sigVars
  /\ LockFrame

\* main.c:132, sliding_window.c:44  sliding_window_add_trade takes w->lock
lk_add_trade_lock ==
  /\ mtx.pc["tp"] = "add_lock"
  /\ MutexLock("tp", WindowLock(mtx.i["tp"]), "add_body")

\* sliding_window.c:46-77  prune, evict, append, unlock; back to the loop test
lk_add_trade_unlock ==
  /\ mtx.pc["tp"] = "add_body"
  /\ mtx' = [mtx EXCEPT !.owner[WindowLock(mtx.i["tp"])] = "none",
                        !.pc["tp"] = "top", !.i["tp"] = 0]
  /\ UNCHANGED sigVars
  /\ LockFrame

\* vwap_calculator.c:37, sliding_window.c:87  snapshot_vwap takes w->lock
lk_snapshot_lock ==
  /\ mtx.pc["vwap"] = "snap_lock"
  /\ MutexLock("vwap", WindowLock(mtx.i["vwap"]), "snap_body")

\* sliding_window.c:89-94  compute the VWAP, unlock, return
lk_snapshot_unlock ==
  /\ mtx.pc["vwap"] = "snap_body"
  /\ mtx' = [mtx EXCEPT !.owner[WindowLock(mtx.i["vwap"])] = "none",
                        !.pc["vwap"] = "app_lock"]
  /\ UNCHANGED sigVars
  /\ LockFrame

\* vwap_calculator.c:38, vwap_history.c:42  vwap_history_append takes h->lock
lk_append_lock ==
  /\ mtx.pc["vwap"] = "app_lock"
  /\ MutexLock("vwap", HistoryLock(mtx.i["vwap"]), "app_body")

\* vwap_history.c:45-57, vwap_calculator.c:35  store the point, unlock; next
\* symbol, or back to the loop test after the last
lk_append_unlock ==
  /\ mtx.pc["vwap"] = "app_body"
  /\ mtx' = [mtx EXCEPT
               !.hsize[mtx.i["vwap"]] = Min(@ + 1, VWAP_HISTORY_SIZE_MINUTES),
               !.owner[HistoryLock(mtx.i["vwap"])] = "none",
               !.pc["vwap"] = IF mtx.i["vwap"] + 1 < NUM_SYMBOLS THEN "snap_lock" ELSE "top",
               !.i["vwap"] = IF mtx.i["vwap"] + 1 < NUM_SYMBOLS THEN @ + 1 ELSE 0]
  /\ UNCHANGED sigVars
  /\ LockFrame

\* correlation.c:144, vwap_history.c:69  vwap_history_get_recent takes h->lock
lk_get_recent_lock ==
  /\ mtx.pc["corr"] = "gr_lock"
  /\ MutexLock("corr", HistoryLock(mtx.i["corr"]), "gr_body")

\* vwap_history.c:71-87, correlation.c:144-145  too few points: unlock,
\* return 0, continue with the next source; else copy, unlock, return 1 and
\* start the targets at 0
lk_get_recent_unlock ==
  /\ mtx.pc["corr"] = "gr_body"
  /\ mtx' = IF mtx.hsize[mtx.i["corr"]] < MOVING_AVG_POINTS
            THEN [mtx EXCEPT
                    !.owner[HistoryLock(mtx.i["corr"])] = "none",
                    !.pc["corr"] = IF mtx.i["corr"] + 1 < NUM_SYMBOLS
                                   THEN "gr_lock" ELSE "top",
                    !.i["corr"] = IF mtx.i["corr"] + 1 < NUM_SYMBOLS THEN @ + 1 ELSE 0]
            ELSE [mtx EXCEPT
                    !.owner[HistoryLock(mtx.i["corr"])] = "none",
                    !.pc["corr"] = "fb_lock",
                    !.j = 0]
  /\ UNCHANGED sigVars
  /\ LockFrame

\* correlation.c:170, 56  find_best_lagged_correlation takes target_hist->lock
lk_find_best_lock ==
  /\ mtx.pc["corr"] = "fb_lock"
  /\ MutexLock("corr", HistoryLock(mtx.j), "fb_body")

\* correlation.c:58-107, 158-185  the early return and the return after the
\* loop both unlock; next target, or next source, or back to the loop test
lk_find_best_unlock ==
  /\ mtx.pc["corr"] = "fb_body"
  /\ mtx' = [mtx EXCEPT
               !.owner[HistoryLock(mtx.j)] = "none",
               !.pc["corr"] = IF mtx.j + 1 < NUM_SYMBOLS THEN "fb_lock"
                              ELSE IF mtx.i["corr"] + 1 < NUM_SYMBOLS THEN "gr_lock"
                              ELSE "top",
               !.j = IF mtx.j + 1 < NUM_SYMBOLS THEN @ + 1 ELSE 0,
               !.i["corr"] = IF mtx.j + 1 < NUM_SYMBOLS THEN @
                             ELSE IF mtx.i["corr"] + 1 < NUM_SYMBOLS THEN @ + 1 ELSE 0]
  /\ UNCHANGED sigVars
  /\ LockFrame

NextLocks ==
  \/ on_termination_signal_flag
  \/ lk_push_lock
  \/ lk_push_unlock
  \/ \E t \in {"tp", "vwap", "corr"} : lk_loop_top(t)
  \/ lk_pop_lock
  \/ lk_pop_check
  \/ lk_pop_unlock
  \/ lk_add_trade_lock
  \/ lk_add_trade_unlock
  \/ lk_snapshot_lock
  \/ lk_snapshot_unlock
  \/ lk_append_lock
  \/ lk_append_unlock
  \/ lk_get_recent_lock
  \/ lk_get_recent_unlock
  \/ lk_find_best_lock
  \/ lk_find_best_unlock

SpecLocks == Init /\ [][NextLocks]_vars

\* the mutex a thread is about to lock, when it stands at a lock call
Wanted(t) ==
  IF mtx.pc[t] \in {"pop_lock", "pop_wait"} THEN {RingLock}
  ELSE IF mtx.pc[t] \in {"add_lock", "snap_lock"} THEN {WindowLock(mtx.i[t])}
  ELSE IF mtx.pc[t] \in {"app_lock", "gr_lock"} THEN {HistoryLock(mtx.i[t])}
  ELSE IF mtx.pc[t] = "fb_lock" THEN {HistoryLock(mtx.j)}
  ELSE IF t = "ws" /\ mtx.pc[t] = "top" THEN {RingLock}
  ELSE {}

\* the thread waits for a mutex that another thread holds
Blocked(t) == \E m \in Wanted(t) : mtx.owner[m] # "none"

\* the positions inside a critical section, from which the next step is
\* always possible
InsidePcs ==
  {"push_body", "pop_check", "pop_ret0", "pop_ret1", "add_body", "snap_body",
   "app_body", "gr_body", "fb_body"}

\* C39: no thread holds more than one mutex; a thread outside push, pop,
\* add_trade, snapshot_vwap, append, get_recent and find_best (returned on
\* any path, asleep in pthread_cond_wait, or about to lock) holds none; so a
\* thread that waits for a mutex waits for a thread that is inside a critical
\* section and not itself waiting: no state is a deadlock on the mutexes.
C39_AtMostOneMutexNoDeadlock ==
  /\ \A t \in LockThreads : Cardinality(Holds(t)) <= 1
  /\ \A t \in LockThreads : mtx.pc[t] \notin InsidePcs => Holds(t) = {}
  /\ \A m \in Mutexes : mtx.owner[m] # "none" =>
       /\ mtx.pc[mtx.owner[m]] \in InsidePcs
       /\ ~Blocked(mtx.owner[m])
  /\ \A t \in LockThreads : mtx.pc[t] = "done" => Holds(t) = {}

\* C39 witness: the correlation worker waits for the history lock that the
\* VWAP worker holds, while the trade processor sleeps in pthread_cond_wait
\* and the websocket thread holds the ring lock
C39_Witness ==
  /\ mtx.pc["corr"] = "fb_lock" /\ mtx.owner[HistoryLock(mtx.j)] = "vwap"
  /\ mtx.pc["tp"] = "pop_wait"
  /\ mtx.owner[RingLock] = "ws"

====
